---- MODULE Spec2Model ----
(***************************************************************************)
(* Stella Fuzzy Pattern Matcher (SFPM-C): fact source, criteria, rules     *)
(* with hook chains, the matcher, and the tiered (cached / uncached)       *)
(* opcode dispatcher of examples/interpreter_tiered.c.                     *)
(***************************************************************************)
EXTENDS Integers, Sequences, FiniteSets, TLC

VARIABLES
    rules,      \* matcher: the caller's rule array (sfpm_rule_t **), NULL entries allowed
    facts,      \* matcher: the dictionary fact source handed to sfpm_match
    selected,   \* matcher: the local `selected` of the latest sfpm_match call
    rule,       \* hook chain: the rule under sfpm_rule_execute_payload
    added,      \* hook chain: the hook nodes added to each chain, in the order of the calls
    trace,      \* the hook / payload / handler calls observed during the latest API call
    last,       \* the latest API call and the pre-state it saw
    interp,     \* tiered dispatcher: the tiered_interpreter_t
    heap,       \* tiered dispatcher: the rule objects, by address (NULL = not allocated)
    vm,         \* tiered dispatcher: the vm_t the programs run on
    exit_status, \* tiered dispatcher: "running", or the reason of the exit(1) that ended the process
    handlers,   \* tiered dispatcher: the handler of the host's latest register / update call, by opcode
    snapshot,   \* snapshot: the sfpm_snapshot_t descriptor
    memory,     \* snapshot: the bytes of the host's buffers, by base address
    file,       \* snapshot: the snapshot file: whether it exists and its contents, item by item
    saved       \* snapshot: the file and the region contents of the latest successful save

tiered_vars == <<interp, heap, vm, exit_status, handlers>>

snapshot_vars == <<snapshot, memory, file, saved>>

vars == <<rules, facts, selected, rule, added, trace, last, tiered_vars, snapshot_vars>>

\* a null pointer to a struct (rule, criteria, fact source)
NULL == [null |-> TRUE]

\* a null function pointer (payload, hook) or a null string
NULL_FN == "NULL"

(***************************************************************************)
(* Bounds of the model                                                     *)
(***************************************************************************)
MaxRules == 3

(***************************************************************************)
(* Values and the dictionary fact source (fact_source.c)                   *)
(***************************************************************************)
sfpm_value_from_int(value) == [type |-> "SFPM_TYPE_INT", data |-> value]

\* a float or a double is a number or a NaN: [nan |-> FALSE, v |-> n] or [nan |-> TRUE, v |-> 0]
sfpm_value_from_float(value) == [type |-> "SFPM_TYPE_FLOAT", data |-> value]

sfpm_value_from_double(value) == [type |-> "SFPM_TYPE_DOUBLE", data |-> value]

\* a string is the sequence of its bytes
sfpm_value_from_string(value) == [type |-> "SFPM_TYPE_STRING", data |-> value]

sfpm_value_from_bool(value) == [type |-> "SFPM_TYPE_BOOL", data |-> value]

\* capacity 0 asks for the default capacity
sfpm_dict_fact_source_create(capacity) ==
    [entries |-> << >>, capacity |-> IF capacity = 0 THEN 16 ELSE capacity]

RECURSIVE dict_find(_, _, _)
dict_find(entries, key, i) ==
    IF i > Len(entries) THEN 0
    ELSE IF entries[i].key = key THEN i
    ELSE dict_find(entries, key, i + 1)

\* [found, value]: the first entry whose key equals fact_name
dict_try_get_fact(source, fact_name) ==
    LET i == dict_find(source.entries, fact_name, 1)
    IN  IF i = 0 THEN [found |-> FALSE, value |-> NULL]
        ELSE [found |-> TRUE, value |-> source.entries[i].value]

sfpm_fact_source_try_get(source, fact_name) ==
    IF source = NULL \/ fact_name = NULL_FN
    THEN [found |-> FALSE, value |-> NULL]
    ELSE dict_try_get_fact(source, fact_name)

\* the resize step moving to a new block without carrying the entries over
grow_if_full_fresh_block(source) ==
    IF Len(source.entries) >= source.capacity
    THEN [source EXCEPT !.capacity = @ * 2, !.entries = << >>]
    ELSE source

\* the resize step of sfpm_dict_fact_source_add: a full array is reallocated at twice
\* the capacity, realloc carrying the entries over (a failing realloc is not modelled)
grow_if_full(source) ==
    IF Len(source.entries) >= source.capacity
    THEN [source EXCEPT !.capacity = @ * 2,
                        !.entries = [i \in 1 .. Len(source.entries) |-> source.entries[i]]]
    ELSE source

\* add-or-replace: an existing key keeps its slot and takes the new value
sfpm_dict_fact_source_add(source, key, value) ==
    LET grown == grow_if_full(source)
        i == dict_find(grown.entries, key, 1)
    IN  IF i # 0
        THEN [grown EXCEPT !.entries[i].value = value]
        ELSE [grown EXCEPT !.entries = Append(@, [key |-> key, value |-> value])]

(***************************************************************************)
(* Criteria (criteria.c)                                                   *)
(***************************************************************************)
compare_int(a, b) == IF a < b THEN -1 ELSE IF a > b THEN 1 ELSE 0

\* a < b and a > b are both false when a or b is a NaN
compare_float(a, b) ==
    IF a.nan \/ b.nan THEN 0
    ELSE IF a.v < b.v THEN -1 ELSE IF a.v > b.v THEN 1 ELSE 0

compare_double(a, b) ==
    IF a.nan \/ b.nan THEN 0
    ELSE IF a.v < b.v THEN -1 ELSE IF a.v > b.v THEN 1 ELSE 0

\* strcmp: the sign of the difference of the first bytes that differ, the end of a
\* string counting as byte 0; only the sign is specified and only the sign is read
RECURSIVE compare_string(_, _)
compare_string(a, b) ==
    IF a = << >> /\ b = << >> THEN 0
    ELSE IF a = << >> THEN -1
    ELSE IF b = << >> THEN 1
    ELSE IF Head(a) < Head(b) THEN -1
    ELSE IF Head(a) > Head(b) THEN 1
    ELSE compare_string(Tail(a), Tail(b))

\* compare_bool with the two results for unequal arguments exchanged
compare_bool_reversed(a, b) == IF a = b THEN 0 ELSE IF a THEN -1 ELSE 1

compare_bool(a, b) == IF a = b THEN 0 ELSE IF a THEN 1 ELSE -1

\* evaluate_comparison without the type check: values of different types compare unequal
evaluate_comparison_untyped(actual, expected, op) ==
    IF actual.type # expected.type THEN op = "SFPM_OP_NOT_EQUAL"
    ELSE LET cmp == CASE actual.type = "SFPM_TYPE_INT" ->
                            compare_int(actual.data, expected.data)
                      [] actual.type = "SFPM_TYPE_FLOAT" ->
                            compare_float(actual.data, expected.data)
                      [] actual.type = "SFPM_TYPE_DOUBLE" ->
                            compare_double(actual.data, expected.data)
                      [] actual.type = "SFPM_TYPE_STRING" ->
                            compare_string(actual.data, expected.data)
                      [] actual.type = "SFPM_TYPE_BOOL" ->
                            compare_bool(actual.data, expected.data)
         IN  CASE op = "SFPM_OP_EQUAL" -> cmp = 0
               [] op = "SFPM_OP_NOT_EQUAL" -> cmp # 0
               [] op = "SFPM_OP_GREATER_THAN" -> cmp > 0
               [] op = "SFPM_OP_LESS_THAN" -> cmp < 0
               [] op = "SFPM_OP_GREATER_THAN_OR_EQUAL" -> cmp >= 0
               [] op = "SFPM_OP_LESS_THAN_OR_EQUAL" -> cmp <= 0
               [] OTHER -> FALSE

evaluate_comparison(actual, expected, op) ==
    IF actual.type # expected.type THEN FALSE
    ELSE IF actual.type \notin {"SFPM_TYPE_INT", "SFPM_TYPE_FLOAT", "SFPM_TYPE_DOUBLE",
                                "SFPM_TYPE_STRING", "SFPM_TYPE_BOOL"} THEN FALSE
    ELSE LET cmp == CASE actual.type = "SFPM_TYPE_INT" ->
                            compare_int(actual.data, expected.data)
                      [] actual.type = "SFPM_TYPE_FLOAT" ->
                            compare_float(actual.data, expected.data)
                      [] actual.type = "SFPM_TYPE_DOUBLE" ->
                            compare_double(actual.data, expected.data)
                      [] actual.type = "SFPM_TYPE_STRING" ->
                            compare_string(actual.data, expected.data)
                      [] actual.type = "SFPM_TYPE_BOOL" ->
                            compare_bool(actual.data, expected.data)
         IN  CASE op = "SFPM_OP_EQUAL" -> cmp = 0
               [] op = "SFPM_OP_NOT_EQUAL" -> cmp # 0
               [] op = "SFPM_OP_GREATER_THAN" -> cmp > 0
               [] op = "SFPM_OP_LESS_THAN" -> cmp < 0
               [] op = "SFPM_OP_GREATER_THAN_OR_EQUAL" -> cmp >= 0
               [] op = "SFPM_OP_LESS_THAN_OR_EQUAL" -> cmp <= 0
               [] OTHER -> FALSE

sfpm_criteria_create(fact_name, op, expected_value) ==
    [fact_name |-> fact_name, operator |-> op, expected_value |-> expected_value]

sfpm_criteria_evaluate(criteria, source) ==
    IF criteria = NULL \/ source = NULL THEN FALSE
    ELSE LET got == sfpm_fact_source_try_get(source, criteria.fact_name)
         IN  IF ~got.found THEN FALSE
             ELSE evaluate_comparison(got.value, criteria.expected_value,
                                      criteria.operator)

(***************************************************************************)
(* Rules and hook chains (rule.c)                                          *)
(***************************************************************************)
\* a hook chain node: the hook function and the value that function returns
hook_node(hook, ret) == [hook |-> hook, ret |-> ret]

sfpm_rule_create(criterias, payload, payload_user_data, name) ==
    [criterias |-> criterias, payload |-> payload,
     payload_user_data |-> payload_user_data, name |-> name, priority |-> 0,
     before_hook_chain |-> << >>, after_hook_chain |-> << >>,
     middleware_hook_chain |-> << >>]

sfpm_rule_get_criteria_count(r) == IF r = NULL THEN 0 ELSE Len(r.criterias)

sfpm_rule_get_priority(r) == IF r = NULL THEN 0 ELSE r.priority

sfpm_rule_set_priority(r, priority) ==
    IF r = NULL THEN r ELSE [r EXCEPT !.priority = priority]

\* add_hook_to_chain linking the new node in at the head of the chain
add_hook_to_chain_front(chain, node) ==
    IF node.hook = NULL_FN THEN chain ELSE <<node>> \o chain

\* the new node goes to the end of the chain; a null hook function is refused
add_hook_to_chain(chain, node) ==
    IF node.hook = NULL_FN THEN chain ELSE Append(chain, node)

sfpm_rule_add_before_hook(r, node) ==
    IF r = NULL THEN r
    ELSE [r EXCEPT !.before_hook_chain = add_hook_to_chain(@, node)]

sfpm_rule_add_after_hook(r, node) ==
    IF r = NULL THEN r
    ELSE [r EXCEPT !.after_hook_chain = add_hook_to_chain(@, node)]

\* sfpm_rule_add_middleware_hook handing the before chain to add_hook_to_chain
sfpm_rule_add_middleware_hook_as_before(r, node) ==
    IF r = NULL THEN r
    ELSE [r EXCEPT !.before_hook_chain = add_hook_to_chain(@, node)]

sfpm_rule_add_middleware_hook(r, node) ==
    IF r = NULL THEN r
    ELSE [r EXCEPT !.middleware_hook_chain = add_hook_to_chain(@, node)]

free_hook_chain(chain) == << >>

\* sfpm_rule_clear_hooks that frees the before and the after chain only
sfpm_rule_clear_hooks_keep_middleware(r) ==
    IF r = NULL THEN r
    ELSE [r EXCEPT !.before_hook_chain = free_hook_chain(@),
                   !.after_hook_chain = free_hook_chain(@)]

sfpm_rule_clear_hooks(r) ==
    IF r = NULL THEN r
    ELSE [r EXCEPT !.before_hook_chain = free_hook_chain(@),
                   !.after_hook_chain = free_hook_chain(@),
                   !.middleware_hook_chain = free_hook_chain(@)]

count_hooks_in_chain(chain) == Len(chain)

\* the criteria loop stopping after the first entry
evaluate_criterias_first_only(criterias, source, i) ==
    IF i > Len(criterias) THEN TRUE
    ELSE IF criterias[i] = NULL THEN TRUE
    ELSE sfpm_criteria_evaluate(criterias[i], source)

RECURSIVE evaluate_criterias(_, _, _)
evaluate_criterias(criterias, source, i) ==
    IF i > Len(criterias) THEN TRUE
    ELSE IF criterias[i] = NULL THEN evaluate_criterias(criterias, source, i + 1)
    ELSE IF ~sfpm_criteria_evaluate(criterias[i], source) THEN FALSE
    ELSE evaluate_criterias(criterias, source, i + 1)

sfpm_rule_evaluate(r, source) ==
    IF r = NULL \/ source = NULL THEN [matched |-> FALSE, criteria_count |-> 0]
    ELSE IF Len(r.criterias) = 0 THEN [matched |-> TRUE, criteria_count |-> 0]
    ELSE IF ~evaluate_criterias(r.criterias, source, 1)
         THEN [matched |-> FALSE, criteria_count |-> 0]
    ELSE [matched |-> TRUE, criteria_count |-> Len(r.criterias)]

hook_call(chainname, node) ==
    [kind |-> chainname, fn |-> node.hook, ret |-> node.ret, user_data |-> NULL_FN]

payload_call(r) ==
    [kind |-> "payload", fn |-> r.payload, ret |-> TRUE,
     user_data |-> r.payload_user_data]

\* the while loops over the before and the middleware chain: the calls made,
\* and whether a hook returned false (the walk stops there)
RECURSIVE walk_abortable_chain(_, _, _)
walk_abortable_chain(chainname, chain, i) ==
    IF i > Len(chain) THEN [calls |-> << >>, aborted |-> FALSE]
    ELSE IF ~chain[i].ret
         THEN [calls |-> <<hook_call(chainname, chain[i])>>, aborted |-> TRUE]
    ELSE LET rest == walk_abortable_chain(chainname, chain, i + 1)
         IN  [calls |-> <<hook_call(chainname, chain[i])>> \o rest.calls,
              aborted |-> rest.aborted]

\* walk_after_chain stopping at an after hook that returns false
RECURSIVE walk_after_chain_abortable(_, _)
walk_after_chain_abortable(chain, i) ==
    IF i > Len(chain) THEN << >>
    ELSE IF ~chain[i].ret THEN <<hook_call("after", chain[i])>>
    ELSE <<hook_call("after", chain[i])>> \o walk_after_chain_abortable(chain, i + 1)

\* the while loop over the after chain: the return value is not read
RECURSIVE walk_after_chain(_, _)
walk_after_chain(chain, i) ==
    IF i > Len(chain) THEN << >>
    ELSE <<hook_call("after", chain[i])>> \o walk_after_chain(chain, i + 1)

\* sfpm_rule_execute_payload with the return on a middleware abort left out
sfpm_rule_execute_payload_no_return(r) ==
    IF r = NULL THEN << >>
    ELSE IF r.payload = NULL_FN THEN << >>
    ELSE LET b == walk_abortable_chain("before", r.before_hook_chain, 1)
             m == walk_abortable_chain("middleware", r.middleware_hook_chain, 1)
         IN  IF b.aborted THEN b.calls
             ELSE b.calls \o m.calls \o <<payload_call(r)>>
                  \o walk_after_chain(r.after_hook_chain, 1)

\* the sequence of hook and payload calls one sfpm_rule_execute_payload makes
sfpm_rule_execute_payload(r) ==
    IF r = NULL THEN << >>
    ELSE IF r.payload = NULL_FN THEN << >>
    ELSE LET b == walk_abortable_chain("before", r.before_hook_chain, 1)
             m == walk_abortable_chain("middleware", r.middleware_hook_chain, 1)
         IN  IF b.aborted THEN b.calls
             ELSE IF m.aborted THEN b.calls \o m.calls
             ELSE b.calls \o m.calls \o <<payload_call(r)>>
                  \o walk_after_chain(r.after_hook_chain, 1)

(***************************************************************************)
(* Matcher (matcher.c)                                                     *)
(***************************************************************************)
\* compare_rules_by_criteria returning count_a - count_b: ascending order
compare_rules_by_criteria_ascending(a, b) ==
    sfpm_rule_get_criteria_count(a) - sfpm_rule_get_criteria_count(b)

compare_rules_by_criteria(a, b) ==
    sfpm_rule_get_criteria_count(b) - sfpm_rule_get_criteria_count(a)

\* qsort promises no order among rules that compare equal: every arrangement
\* of the array that the comparison function accepts as sorted is a result
sfpm_optimize_rules(arr) ==
    LET n == Len(arr)
        perms == Permutations(1..n)
        sorted(a) == \A i, j \in 1..n :
                        i < j => compare_rules_by_criteria(a[i], a[j]) <= 0
    IN  {a \in {[i \in 1..n |-> arr[p[i]]] : p \in perms} : sorted(a)}

\* match_loop with the reset of the matched list on a new best score left out
RECURSIVE match_loop_no_reset(_, _, _, _, _, _)
match_loop_no_reset(arr, source, optimize, i, best_score, matched_rules) ==
    IF i > Len(arr)
    THEN [best_score |-> best_score, matched_rules |-> matched_rules]
    ELSE IF arr[i] = NULL
         THEN match_loop_no_reset(arr, source, optimize, i + 1, best_score,
                                  matched_rules)
    ELSE LET eval == sfpm_rule_evaluate(arr[i], source)
             better == eval.matched /\ eval.criteria_count > best_score
             tie == eval.matched /\ ~better
                    /\ eval.criteria_count = best_score /\ best_score > 0
             score == IF better THEN eval.criteria_count ELSE best_score
             list == IF better \/ tie THEN Append(matched_rules, arr[i])
                     ELSE matched_rules
         IN  IF optimize /\ sfpm_rule_get_criteria_count(arr[i]) < score
             THEN [best_score |-> score, matched_rules |-> list]
             ELSE match_loop_no_reset(arr, source, optimize, i + 1, score, list)

\* match_loop leaving the loop at a null entry instead of going on to the next one
RECURSIVE match_loop_stop_at_null(_, _, _, _, _, _)
match_loop_stop_at_null(arr, source, optimize, i, best_score, matched_rules) ==
    IF i > Len(arr)
    THEN [best_score |-> best_score, matched_rules |-> matched_rules]
    ELSE IF arr[i] = NULL
         THEN [best_score |-> best_score, matched_rules |-> matched_rules]
    ELSE LET eval == sfpm_rule_evaluate(arr[i], source)
             better == eval.matched /\ eval.criteria_count > best_score
             tie == eval.matched /\ ~better
                    /\ eval.criteria_count = best_score /\ best_score > 0
             score == IF better THEN eval.criteria_count ELSE best_score
             list == IF better THEN <<arr[i]>>
                     ELSE IF tie THEN Append(matched_rules, arr[i])
                     ELSE matched_rules
         IN  IF optimize /\ sfpm_rule_get_criteria_count(arr[i]) < score
             THEN [best_score |-> score, matched_rules |-> list]
             ELSE match_loop_stop_at_null(arr, source, optimize, i + 1, score, list)

\* match_loop leaving at the first rule whose criteria count is not above the best
\* score (<= for < in the early exit)
RECURSIVE match_loop_exit_on_equal(_, _, _, _, _, _)
match_loop_exit_on_equal(arr, source, optimize, i, best_score, matched_rules) ==
    IF i > Len(arr)
    THEN [best_score |-> best_score, matched_rules |-> matched_rules]
    ELSE IF arr[i] = NULL
         THEN match_loop_exit_on_equal(arr, source, optimize, i + 1, best_score,
                                       matched_rules)
    ELSE LET eval == sfpm_rule_evaluate(arr[i], source)
             better == eval.matched /\ eval.criteria_count > best_score
             tie == eval.matched /\ ~better
                    /\ eval.criteria_count = best_score /\ best_score > 0
             score == IF better THEN eval.criteria_count ELSE best_score
             list == IF better THEN <<arr[i]>>
                     ELSE IF tie THEN Append(matched_rules, arr[i])
                     ELSE matched_rules
         IN  IF optimize /\ sfpm_rule_get_criteria_count(arr[i]) <= score
             THEN [best_score |-> score, matched_rules |-> list]
             ELSE match_loop_exit_on_equal(arr, source, optimize, i + 1, score, list)

\* match_loop accepting a tie at best score 0 (the test best_score > 0 left out)
RECURSIVE match_loop_tie_at_zero(_, _, _, _, _, _)
match_loop_tie_at_zero(arr, source, optimize, i, best_score, matched_rules) ==
    IF i > Len(arr)
    THEN [best_score |-> best_score, matched_rules |-> matched_rules]
    ELSE IF arr[i] = NULL
         THEN match_loop_tie_at_zero(arr, source, optimize, i + 1, best_score,
                                     matched_rules)
    ELSE LET eval == sfpm_rule_evaluate(arr[i], source)
             better == eval.matched /\ eval.criteria_count > best_score
             tie == eval.matched /\ ~better /\ eval.criteria_count = best_score
             score == IF better THEN eval.criteria_count ELSE best_score
             list == IF better THEN <<arr[i]>>
                     ELSE IF tie THEN Append(matched_rules, arr[i])
                     ELSE matched_rules
         IN  IF optimize /\ sfpm_rule_get_criteria_count(arr[i]) < score
             THEN [best_score |-> score, matched_rules |-> list]
             ELSE match_loop_tie_at_zero(arr, source, optimize, i + 1, score, list)

\* the for loop of sfpm_match from index i on: the matched list and best score
RECURSIVE match_loop(_, _, _, _, _, _)
match_loop(arr, source, optimize, i, best_score, matched_rules) ==
    IF i > Len(arr)
    THEN [best_score |-> best_score, matched_rules |-> matched_rules]
    ELSE IF arr[i] = NULL
         THEN match_loop(arr, source, optimize, i + 1, best_score, matched_rules)
    ELSE LET eval == sfpm_rule_evaluate(arr[i], source)
             better == eval.matched /\ eval.criteria_count > best_score
             tie == eval.matched /\ ~better
                    /\ eval.criteria_count = best_score /\ best_score > 0
             score == IF better THEN eval.criteria_count ELSE best_score
             list == IF better THEN <<arr[i]>>
                     ELSE IF tie THEN Append(matched_rules, arr[i])
                     ELSE matched_rules
         IN  IF optimize /\ sfpm_rule_get_criteria_count(arr[i]) < score
             THEN [best_score |-> score, matched_rules |-> list]
             ELSE match_loop(arr, source, optimize, i + 1, score, list)

RECURSIVE highest_priority_of(_, _, _)
highest_priority_of(matched_rules, i, highest) ==
    IF i > Len(matched_rules) THEN highest
    ELSE IF sfpm_rule_get_priority(matched_rules[i]) > highest
         THEN highest_priority_of(matched_rules, i + 1,
                                  sfpm_rule_get_priority(matched_rules[i]))
    ELSE highest_priority_of(matched_rules, i + 1, highest)

\* random_index stuck at its first value
random_index_zero(priority_count) == {0}

\* rand() % priority_count: any index below priority_count
random_index(priority_count) == 0 .. (priority_count - 1)

\* select_rule without the priority step: the first matched rule wins
select_rule_first(matched_rules) ==
    IF Len(matched_rules) = 0 THEN {NULL} ELSE {matched_rules[1]}

\* the rules the selection step may pick from the matched list
select_rule(matched_rules) ==
    IF Len(matched_rules) = 0 THEN {NULL}
    ELSE IF Len(matched_rules) = 1 THEN {matched_rules[1]}
    ELSE LET highest_priority ==
                 highest_priority_of(matched_rules, 2,
                                     sfpm_rule_get_priority(matched_rules[1]))
             priority_candidates ==
                 SelectSeq(matched_rules,
                           LAMBDA r : sfpm_rule_get_priority(r) = highest_priority)
         IN  IF Len(priority_candidates) = 1 THEN {priority_candidates[1]}
             ELSE {priority_candidates[k + 1] :
                       k \in random_index(Len(priority_candidates))}

\* sfpm_match_outcomes firing every rule of the matched list, not only `selected`
RECURSIVE execute_all(_, _)
execute_all(matched_rules, i) ==
    IF i > Len(matched_rules) THEN << >>
    ELSE sfpm_rule_execute_payload(matched_rules[i])
         \o execute_all(matched_rules, i + 1)

sfpm_match_outcomes_fire_all(arr, source, optimize) ==
    IF source = NULL \/ Len(arr) = 0 THEN
        {[rules |-> arr, selected |-> NULL, trace |-> << >>]}
    ELSE LET arrays == IF optimize THEN sfpm_optimize_rules(arr) ELSE {arr}
         IN  UNION {
                 {[rules |-> a, selected |-> s,
                   trace |-> execute_all(
                       match_loop(a, source, optimize, 1, 0, << >>).matched_rules,
                       1)] :
                      s \in select_rule(
                               match_loop(a, source, optimize, 1, 0, << >>)
                                   .matched_rules)} :
                 a \in arrays}

\* every outcome one sfpm_match call can have: the array as the call leaves
\* it, the rule it selected (NULL for none) and the calls its firing made
sfpm_match_outcomes(arr, source, optimize) ==
    IF source = NULL THEN
        {[rules |-> arr, selected |-> NULL, trace |-> << >>]}
    ELSE IF Len(arr) = 0 THEN
        {[rules |-> arr, selected |-> NULL, trace |-> << >>]}
    ELSE LET arrays == IF optimize THEN sfpm_optimize_rules(arr) ELSE {arr}
         IN  UNION {
                 {[rules |-> a, selected |-> s,
                   trace |-> sfpm_rule_execute_payload(s)] :
                      s \in select_rule(
                               match_loop(a, source, optimize, 1, 0, << >>)
                                   .matched_rules)} :
                 a \in arrays}

\* the call as the host makes it: the rules pointer may be null, and then the array
\* the host holds is not read
sfpm_match_entry(rules_null, arr, source, optimize) ==
    IF rules_null THEN {[rules |-> arr, selected |-> NULL, trace |-> << >>]}
    ELSE sfpm_match_outcomes(arr, source, optimize)

\* the loop of sfpm_most_specific_rule with >= for >: the last rule of maximum count wins
sfpm_most_specific_rule_last(rules_null, arr) ==
    IF rules_null \/ Len(arr) = 0 THEN NULL
    ELSE LET most_specific[i \in 1 .. Len(arr)] ==
                 IF i = 1 THEN arr[1]
                 ELSE IF sfpm_rule_get_criteria_count(arr[i])
                             >= sfpm_rule_get_criteria_count(most_specific[i - 1])
                      THEN arr[i]
                      ELSE most_specific[i - 1]
         IN  most_specific[Len(arr)]

\* most_specific[i] is the variable most_specific after the entries up to i; the
\* variable max_criteria is its criteria count throughout
sfpm_most_specific_rule(rules_null, arr) ==
    IF rules_null \/ Len(arr) = 0 THEN NULL
    ELSE LET most_specific[i \in 1 .. Len(arr)] ==
                 IF i = 1 THEN arr[1]
                 ELSE IF sfpm_rule_get_criteria_count(arr[i])
                             > sfpm_rule_get_criteria_count(most_specific[i - 1])
                      THEN arr[i]
                      ELSE most_specific[i - 1]
         IN  most_specific[Len(arr)]

sfpm_least_specific_rule(rules_null, arr) ==
    IF rules_null \/ Len(arr) = 0 THEN NULL
    ELSE LET least_specific[i \in 1 .. Len(arr)] ==
                 IF i = 1 THEN arr[1]
                 ELSE IF sfpm_rule_get_criteria_count(arr[i])
                             < sfpm_rule_get_criteria_count(least_specific[i - 1])
                      THEN arr[i]
                      ELSE least_specific[i - 1]
         IN  least_specific[Len(arr)]

(***************************************************************************)
(* The matcher as a state machine: a host builds a rule array and a fact   *)
(* source, as tests/test_basic.c and tests/test_advanced.c do, and calls   *)
(* sfpm_match on them.                                                     *)
(***************************************************************************)
hook_that_aborts == hook_node("hook_that_aborts", FALSE)

before_hook_1 == hook_node("before_hook_1", TRUE)

before_hook_2 == hook_node("before_hook_2", TRUE)

rule_a ==
    sfpm_rule_add_before_hook(
        sfpm_rule_create(
            <<sfpm_criteria_create("a", "SFPM_OP_EQUAL", sfpm_value_from_int(1))>>,
            "payload_a", NULL_FN, "rule_a"),
        hook_that_aborts)

rule_a_high ==
    sfpm_rule_set_priority(
        sfpm_rule_create(
            <<sfpm_criteria_create("a", "SFPM_OP_GREATER_THAN_OR_EQUAL",
                                   sfpm_value_from_int(1))>>,
            "payload_a_high", NULL_FN, "rule_a_high"), 1)

rule_ab ==
    sfpm_rule_add_after_hook(
        sfpm_rule_add_before_hook(
            sfpm_rule_create(
                <<sfpm_criteria_create("a", "SFPM_OP_EQUAL", sfpm_value_from_int(1)),
                  sfpm_criteria_create("b", "SFPM_OP_EQUAL", sfpm_value_from_int(2))>>,
                "payload_ab", NULL_FN, "rule_ab"),
            before_hook_1),
        before_hook_1)

rule_no_payload ==
    sfpm_rule_set_priority(
        sfpm_rule_create(
            <<sfpm_criteria_create("a", "SFPM_OP_NOT_EQUAL", sfpm_value_from_int(2))>>,
            NULL_FN, NULL_FN, "rule_no_payload"), 1)

rule_no_criteria == sfpm_rule_create(<< >>, "payload_none", NULL_FN, "rule_no_criteria")

RuleTemplates ==
    {rule_a, rule_a_high, rule_ab, rule_no_payload, rule_no_criteria}

FactAdds ==
    {<<"a", sfpm_value_from_int(1)>>, <<"a", sfpm_value_from_int(2)>>,
     <<"b", sfpm_value_from_int(2)>>}

NoCall == [op |-> "none"]

NoneAdded == [before |-> << >>, middleware |-> << >>, after |-> << >>]

InitMatch ==
    /\ rules = << >>
    /\ facts = sfpm_dict_fact_source_create(5)
    /\ selected = NULL
    /\ rule = NULL
    /\ added = NoneAdded
    /\ trace = << >>
    /\ last = NoCall
    /\ interp = NULL
    /\ heap = NULL
    /\ vm = NULL
    /\ exit_status = "running"
    /\ handlers = NULL
    /\ snapshot = NULL
    /\ memory = NULL
    /\ file = NULL
    /\ saved = NULL

\* the host stores one more rule pointer (or a null pointer) in its array
AddRule(r) ==
    /\ Len(rules) < MaxRules
    /\ rules' = Append(rules, r)
    /\ selected' = NULL
    /\ trace' = << >>
    /\ last' = NoCall
    /\ UNCHANGED <<facts, rule, added, tiered_vars, snapshot_vars>>

FactAdd(key, value) ==
    /\ facts' = sfpm_dict_fact_source_add(facts, key, value)
    /\ selected' = NULL
    /\ trace' = << >>
    /\ last' = NoCall
    /\ UNCHANGED <<rules, rule, added, tiered_vars, snapshot_vars>>

sfpm_match(optimize) ==
    /\ \E o \in sfpm_match_outcomes(rules, facts, optimize) :
          /\ rules' = o.rules
          /\ selected' = o.selected
          /\ trace' = o.trace
    /\ last' = [op |-> "sfpm_match", optimize |-> optimize, rules |-> rules]
    /\ UNCHANGED <<facts, rule, added, tiered_vars, snapshot_vars>>

\* sfpm_match(NULL, n, facts, true) or sfpm_match(rules, n, NULL, true)
MatchNullArgument(null_argument) ==
    /\ \E o \in sfpm_match_entry(null_argument = "rules", rules,
                                  IF null_argument = "facts" THEN NULL ELSE facts,
                                  TRUE) :
          /\ rules' = o.rules
          /\ selected' = o.selected
          /\ trace' = o.trace
    /\ last' = [op |-> "sfpm_match with a null argument", rules |-> rules,
                null_argument |-> null_argument]
    /\ UNCHANGED <<facts, rule, added, tiered_vars, snapshot_vars>>

\* sfpm_most_specific_rule(rules, n) and sfpm_least_specific_rule(rules, n), also with
\* a null rules pointer
SpecificRule(helper, rules_null) ==
    /\ last' = [op |-> helper, rules_null |-> rules_null,
                ret |-> IF helper = "sfpm_most_specific_rule"
                        THEN sfpm_most_specific_rule(rules_null, rules)
                        ELSE sfpm_least_specific_rule(rules_null, rules)]
    /\ selected' = NULL
    /\ trace' = << >>
    /\ UNCHANGED <<rules, facts, rule, added, tiered_vars, snapshot_vars>>

\* sfpm_optimize_rules(rules, n) called by the host itself
OptimizeRules ==
    /\ rules' \in sfpm_optimize_rules(rules)
    /\ last' = [op |-> "sfpm_optimize_rules", rules |-> rules]
    /\ selected' = NULL
    /\ trace' = << >>
    /\ UNCHANGED <<facts, rule, added, tiered_vars, snapshot_vars>>

NextMatch ==
    \/ \E r \in RuleTemplates \cup {NULL} : AddRule(r)
    \/ \E kv \in FactAdds : FactAdd(kv[1], kv[2])
    \/ \E optimize \in BOOLEAN : sfpm_match(optimize)
    \/ \E null_argument \in {"rules", "facts"} : MatchNullArgument(null_argument)

SpecMatch == InitMatch /\ [][NextMatch]_vars

\* the host builds a rule array and calls the helpers of the matcher on it
NextHelpers ==
    \/ \E r \in RuleTemplates \cup {NULL} : AddRule(r)
    \/ \E helper \in {"sfpm_most_specific_rule", "sfpm_least_specific_rule"},
          rules_null \in BOOLEAN : SpecificRule(helper, rules_null)
    \/ OptimizeRules

SpecHelpers == InitMatch /\ [][NextHelpers]_vars

(***************************************************************************)
(* Properties of the matcher                                               *)
(***************************************************************************)
MatchReturned == last.op = "sfpm_match"

Fired == MatchReturned /\ selected # NULL

\* the indices of the array whose rule matches the facts
MatchedAt(arr, source) ==
    {i \in 1..Len(arr) : arr[i] # NULL /\ sfpm_rule_evaluate(arr[i], source).matched}

\* the indices of the matched rules of maximum, non-zero criteria count
AcceptedAt(arr, source) ==
    {i \in MatchedAt(arr, source) :
        /\ Len(arr[i].criterias) > 0
        /\ \A j \in MatchedAt(arr, source) :
              Len(arr[j].criterias) <= Len(arr[i].criterias)}

\* the accepted indices of maximum priority
TopAt(arr, source) ==
    {i \in AcceptedAt(arr, source) :
        \A j \in AcceptedAt(arr, source) : arr[j].priority <= arr[i].priority}

PayloadCalls(tr) == SelectSeq(tr, LAMBDA c : c.kind = "payload")

HookAborted(tr) ==
    \E k \in 1..Len(tr) : tr[k].kind \in {"before", "middleware"} /\ ~tr[k].ret

\* C1: a rule fired by sfpm_match is a rule of the array that matches the
\* facts, and no matching rule of the array has more criteria than it; this
\* for optimize true and false and for every order of the array.
C1_SpecificitySelection ==
    Fired =>
        /\ \E i \in MatchedAt(rules, facts) : rules[i] = selected
        /\ \A j \in MatchedAt(rules, facts) :
              Len(rules[j].criterias) <= Len(selected.criterias)

\* a two-criteria rule fired although a matching one-criterion rule of higher
\* priority stood before it in the array the call was given
C1_Witness ==
    /\ Fired
    /\ selected = rule_ab
    /\ Len(last.rules) >= 2
    /\ last.rules[1] = rule_a_high
    /\ sfpm_rule_evaluate(rule_a_high, facts).matched

\* C2: when several matched rules share the maximum criteria count, the fired
\* rule has the maximum priority among them.
C2_PriorityTieBreak ==
    (Fired /\ Cardinality(AcceptedAt(rules, facts)) > 1) =>
        \A j \in AcceptedAt(rules, facts) : rules[j].priority <= selected.priority

\* the low priority rule came first in the array and the high priority one fired
C2_Witness ==
    /\ Fired
    /\ ~last.optimize
    /\ Len(last.rules) >= 2
    /\ last.rules[1] = rule_a
    /\ {1, 2} \subseteq AcceptedAt(last.rules, facts)
    /\ selected = rule_a_high

\* C3: when several accepted rules share the maximum criteria count and the
\* maximum priority, the fired rule is one of them, each of them can be the
\* one the call fires, and no matched rule with fewer criteria is fired.
C3_RandomTieBreak ==
    Cardinality(TopAt(rules, facts)) > 1 =>
        /\ MatchReturned =>
              /\ \E i \in TopAt(rules, facts) : selected = rules[i]
              /\ \A j \in MatchedAt(rules, facts) :
                    Len(rules[j].criterias) >= Len(selected.criterias)
                        \/ selected # rules[j]
        /\ \A optimize \in BOOLEAN :
              {rules[i] : i \in TopAt(rules, facts)} \subseteq
                  {o.selected : o \in sfpm_match_outcomes(rules, facts, optimize)}

\* two different rules tied on criteria count and priority, and the second fired
C3_Witness ==
    /\ MatchReturned
    /\ ~last.optimize
    /\ Len(last.rules) >= 2
    /\ last.rules[1] = rule_a_high
    /\ last.rules[2] = rule_no_payload
    /\ {1, 2} \subseteq TopAt(last.rules, facts)
    /\ selected = rule_no_payload

\* C4 as stated: at most one payload runs per call, and exactly one runs
\* whenever a rule with one or more criteria matches and no hook aborts.
C4_ExactlyOnePayload_Original ==
    MatchReturned =>
        /\ Len(PayloadCalls(trace)) <= 1
        /\ (AcceptedAt(rules, facts) # {} /\ ~HookAborted(trace)) =>
              Len(PayloadCalls(trace)) = 1

\* C4 amended: at most one payload runs per call, and it is the fired rule's;
\* exactly one runs whenever a rule with one or more criteria matches, no hook
\* aborts and the fired rule has a payload (its payload pointer is not null).
C4_ExactlyOnePayload ==
    MatchReturned =>
        /\ Len(PayloadCalls(trace)) <= 1
        /\ \A k \in 1..Len(trace) :
              trace[k].kind = "payload" => selected # NULL /\ trace[k].fn = selected.payload
        /\ (AcceptedAt(rules, facts) # {} /\ ~HookAborted(trace)
                /\ selected # NULL /\ selected.payload # NULL_FN) =>
              Len(PayloadCalls(trace)) = 1

\* three rules matched, two of them tied, and one payload ran
C4_Witness ==
    /\ MatchReturned
    /\ Cardinality(MatchedAt(rules, facts)) = 3
    /\ Cardinality(AcceptedAt(rules, facts)) = 2
    /\ ~HookAborted(trace)
    /\ Len(PayloadCalls(trace)) = 1

(***************************************************************************)
(* The hook chain as a state machine: one rule, as in                      *)
(* tests/test_hook_chaining.c, gets hooks added to its three chains and is *)
(* fired with sfpm_rule_execute_payload.                                   *)
(***************************************************************************)
\* the most hook nodes the rule holds, over its three chains
MaxHooks == 3

HookNodes == {before_hook_1, before_hook_2, hook_that_aborts}

hook_total(r) ==
    count_hooks_in_chain(r.before_hook_chain)
    + count_hooks_in_chain(r.middleware_hook_chain)
    + count_hooks_in_chain(r.after_hook_chain)

InitHook ==
    /\ rule \in {sfpm_rule_create(<< >>, "test_payload", NULL_FN, "test"),
                 sfpm_rule_create(<< >>, NULL_FN, NULL_FN, "test")}
    /\ rules = << >>
    /\ facts = NULL
    /\ selected = NULL
    /\ added = NoneAdded
    /\ trace = << >>
    /\ last = NoCall
    /\ interp = NULL
    /\ heap = NULL
    /\ vm = NULL
    /\ exit_status = "running"
    /\ handlers = NULL
    /\ snapshot = NULL
    /\ memory = NULL
    /\ file = NULL
    /\ saved = NULL

AddBeforeHook(node) ==
    /\ hook_total(rule) < MaxHooks
    /\ rule' = sfpm_rule_add_before_hook(rule, node)
    /\ added' = [added EXCEPT !.before = Append(@, node)]
    /\ trace' = << >>
    /\ last' = NoCall
    /\ UNCHANGED <<rules, facts, selected, tiered_vars, snapshot_vars>>

AddMiddlewareHook(node) ==
    /\ hook_total(rule) < MaxHooks
    /\ rule' = sfpm_rule_add_middleware_hook(rule, node)
    /\ added' = [added EXCEPT !.middleware = Append(@, node)]
    /\ trace' = << >>
    /\ last' = NoCall
    /\ UNCHANGED <<rules, facts, selected, tiered_vars, snapshot_vars>>

AddAfterHook(node) ==
    /\ hook_total(rule) < MaxHooks
    /\ rule' = sfpm_rule_add_after_hook(rule, node)
    /\ added' = [added EXCEPT !.after = Append(@, node)]
    /\ trace' = << >>
    /\ last' = NoCall
    /\ UNCHANGED <<rules, facts, selected, tiered_vars, snapshot_vars>>

ClearHooks ==
    /\ rule' = sfpm_rule_clear_hooks(rule)
    /\ added' = NoneAdded
    /\ trace' = << >>
    /\ last' = [op |-> "sfpm_rule_clear_hooks", rule |-> rule]
    /\ UNCHANGED <<rules, facts, selected, tiered_vars, snapshot_vars>>

ExecutePayload ==
    /\ trace' = sfpm_rule_execute_payload(rule)
    /\ last' = [op |-> "sfpm_rule_execute_payload"]
    /\ UNCHANGED <<rule, added, rules, facts, selected, tiered_vars, snapshot_vars>>

NextHook ==
    \/ \E node \in HookNodes : AddBeforeHook(node)
    \/ \E node \in HookNodes : AddMiddlewareHook(node)
    \/ \E node \in HookNodes : AddAfterHook(node)
    \/ ClearHooks
    \/ ExecutePayload

SpecHook == InitHook /\ [][NextHook]_vars

(***************************************************************************)
(* Properties of one firing                                                *)
(***************************************************************************)
Executed == last.op = "sfpm_rule_execute_payload"

FnsOf(chain) == [i \in 1..Len(chain) |-> chain[i].hook]

CallFns(tr) == [k \in 1..Len(tr) |-> tr[k].fn]

CallKinds(tr) == [k \in 1..Len(tr) |-> tr[k].kind]

KindsOf(kind, chain) == [i \in 1..Len(chain) |-> kind]

NoHookReturnedFalse(tr) == \A k \in 1..Len(tr) : tr[k].ret

\* the position of the payload call in the trace, 0 when it did not run
PayloadAt(tr) ==
    IF \E k \in 1..Len(tr) : tr[k].kind = "payload"
    THEN CHOOSE k \in 1..Len(tr) : tr[k].kind = "payload"
    ELSE 0

\* the full order of one firing: before, middleware, payload, after
FullOrder ==
    /\ CallFns(trace) =
          FnsOf(added.before) \o FnsOf(added.middleware)
          \o <<rule.payload>> \o FnsOf(added.after)
    /\ CallKinds(trace) =
          KindsOf("before", added.before)
          \o KindsOf("middleware", added.middleware)
          \o <<"payload">> \o KindsOf("after", added.after)

C6_HookAbort ==
    (Executed /\ HookAborted(trace)) =>
        LET guards == added.before \o added.middleware
            n == Len(trace)
        IN  /\ n <= Len(guards)
            /\ CallFns(trace) = FnsOf(SubSeq(guards, 1, n))
            /\ ~trace[n].ret
            /\ \A k \in 1..(n - 1) : trace[k].ret
            /\ \A k \in 1..n : trace[k].kind \in {"before", "middleware"}

\* a middleware hook aborted after a before hook ran, with an after hook waiting
C6_Witness ==
    /\ Executed
    /\ Len(added.before) = 1
    /\ added.middleware = <<hook_that_aborts>>
    /\ Len(added.after) = 1
    /\ Len(trace) = 2

\* C7: once the payload has run, the calls after it are the after hooks, all
\* of them, once each and in insertion order, whatever they return.
C7_AfterHooksPersist ==
    (Executed /\ PayloadAt(trace) # 0) =>
        /\ Len(PayloadCalls(trace)) = 1
        /\ SubSeq(trace, PayloadAt(trace) + 1, Len(trace)) =
              [i \in 1..Len(added.after) |->
                  hook_call("after", added.after[i])]

\* the first after hook returned false and the second still ran
C7_Witness ==
    /\ Executed
    /\ added.after = <<hook_that_aborts, before_hook_1>>
    /\ PayloadAt(trace) # 0
    /\ trace[Len(trace)].fn = "before_hook_1"

(***************************************************************************)
(* The tiered dispatcher (examples/interpreter_tiered.c): the VM           *)
(***************************************************************************)
OP_PUSH == 1

OP_ADD == 2

OP_HALT == 7

STACK_SIZE == 256

\* the opcodes the model registers and dispatches
Opcodes == {OP_PUSH, OP_ADD, OP_HALT}

\* vm_t; stack is stack[0 .. sp), so sp is Len(stack)
vm_init == [stack |-> << >>, pc |-> 0, halted |-> FALSE]

vm_push(v, value) ==
    IF Len(v.stack) >= STACK_SIZE
    THEN [vm |-> v, exit |-> "Stack overflow!"]
    ELSE [vm |-> [v EXCEPT !.stack = Append(@, value)], exit |-> "running"]

vm_pop(v) ==
    IF Len(v.stack) <= 0
    THEN [vm |-> v, value |-> 0, exit |-> "Stack underflow!"]
    ELSE [vm |-> [v EXCEPT !.stack = SubSeq(@, 1, Len(@) - 1)],
          value |-> v.stack[Len(v.stack)], exit |-> "running"]

op_push(v, operand) == vm_push(v, operand)

\* b = vm_pop, a = vm_pop, vm_push(a + b + extra); each pop may end the process
pop_pop_push(v, extra) ==
    LET b == vm_pop(v)
        a == vm_pop(b.vm)
    IN  IF b.exit # "running" THEN [vm |-> b.vm, exit |-> b.exit]
        ELSE IF a.exit # "running" THEN [vm |-> a.vm, exit |-> a.exit]
        ELSE vm_push(a.vm, a.value + b.value + extra)

op_add(v, operand) == pop_pop_push(v, 0)

op_add_buggy(v, operand) == pop_pop_push(v, 1000)

op_halt(v, operand) == [vm |-> [v EXCEPT !.halted = TRUE], exit |-> "running"]

\* ctx->handler(ctx->vm, ctx->operand): the call through the function pointer
call_handler(handler, v, operand) ==
    CASE handler = "op_push" -> op_push(v, operand)
      [] handler = "op_add" -> op_add(v, operand)
      [] handler = "op_add_buggy" -> op_add_buggy(v, operand)
      [] handler = "op_halt" -> op_halt(v, operand)
      [] OTHER -> [vm |-> v, exit |-> "call through a null handler"]

\* the handlers the host registers for each opcode
Handlers(opcode) ==
    CASE opcode = OP_PUSH -> {"op_push"}
      [] opcode = OP_ADD -> {"op_add", "op_add_buggy"}
      [] opcode = OP_HALT -> {"op_halt"}

instruction(op, operand) == [op |-> op, operand |-> operand]

(***************************************************************************)
(* The tiered dispatcher: the tables                                       *)
(***************************************************************************)
\* the null rule pointer in rule_cache / all_rules; rule objects live at 1 .. MaxAddr
NULL_ADDR == 0

MaxAddr == 4

Addrs == 1 .. MaxAddr

\* the blocks malloc may return: those not holding a live rule
FreeAddrs(h) == {a \in Addrs : h[a] = NULL}

\* a fixed allocator: the lowest block not in use
first_free(h) == CHOOSE a \in FreeAddrs(h) : \A b \in FreeAddrs(h) : a <= b

create_opcode_rule(opcode, handler) ==
    sfpm_rule_create(
        <<sfpm_criteria_create("opcode", "SFPM_OP_EQUAL", sfpm_value_from_int(opcode))>>,
        "execute_opcode_handler", opcode, <<"opcode", opcode>>)

sfpm_rule_destroy(h, a) == [h EXCEPT ![a] = NULL]

tiered_init ==
    [mode |-> "MODE_CACHED", cache_version |-> 1,
     rule_cache |-> [o \in Opcodes |-> NULL_ADDR],
     contexts |-> [o \in Opcodes |-> [vm |-> NULL_FN, operand |-> 0, handler |-> NULL_FN]],
     all_rules |-> << >>, all_rules_count |-> 0, all_rules_capacity |-> 32,
     cached_dispatches |-> 0, uncached_dispatches |-> 0, cache_invalidations |-> 0]

\* tiered_enter_uncached_mode without the count of the invalidation
tiered_enter_uncached_mode_uncounted(it) ==
    IF it.mode = "MODE_UNCACHED" THEN it ELSE [it EXCEPT !.mode = "MODE_UNCACHED"]

\* tiered_enter_uncached_mode that also empties the flat array
tiered_enter_uncached_mode_flush(it) ==
    IF it.mode = "MODE_UNCACHED"
    THEN it
    ELSE [it EXCEPT !.mode = "MODE_UNCACHED", !.cache_invalidations = @ + 1,
                    !.all_rules_count = 0]

tiered_enter_uncached_mode(it) ==
    IF it.mode = "MODE_UNCACHED"
    THEN it
    ELSE [it EXCEPT !.mode = "MODE_UNCACHED", !.cache_invalidations = @ + 1]

\* tiered_enter_cached_mode without the early return
tiered_enter_cached_mode_always(it) ==
    [it EXCEPT !.mode = "MODE_CACHED", !.cache_version = @ + 1]

\* tiered_enter_cached_mode without the increment of cache_version
tiered_enter_cached_mode_unversioned(it) ==
    IF it.mode = "MODE_CACHED" THEN it ELSE [it EXCEPT !.mode = "MODE_CACHED"]

tiered_enter_cached_mode(it) ==
    IF it.mode = "MODE_CACHED"
    THEN it
    ELSE [it EXCEPT !.mode = "MODE_CACHED", !.cache_version = @ + 1]

\* the first i in [from, count] with all_rules[i] = target, 0 when there is none
RECURSIVE find_rule(_, _, _, _)
find_rule(all_rules, count, target, i) ==
    IF i > count THEN 0
    ELSE IF all_rules[i] = target THEN i
    ELSE find_rule(all_rules, count, target, i + 1)

\* all_rules[count++] = rule: the slot past the count is overwritten or first used
store_at_count(all_rules, count, addr) ==
    IF count < Len(all_rules)
    THEN [all_rules EXCEPT ![count + 1] = addr]
    ELSE Append(all_rules, addr)

\* removal that fills the hole with the last rule instead of shifting the tail down
move_last_into(all_rules, count, i) ==
    [all_rules EXCEPT ![i] = all_rules[count]]

\* all_rules[j] = all_rules[j + 1] for j in [i, count - 1): the last slot keeps its value
shift_down(all_rules, count, i) ==
    [j \in 1 .. Len(all_rules) |->
        IF j >= i /\ j < count THEN all_rules[j + 1] ELSE all_rules[j]]

\* tiered_register_opcode without the scan for the old pointer: the rule is appended
tiered_register_opcode_append(st, opcode, handler, addr) ==
    LET it == st.interp
        old_rule == it.rule_cache[opcode]
        it1 == [it EXCEPT !.contexts[opcode].handler = handler,
                          !.rule_cache[opcode] = addr,
                          !.all_rules = store_at_count(@, it.all_rules_count, addr),
                          !.all_rules_count = @ + 1]
        h1 == [st.heap EXCEPT ![addr] = create_opcode_rule(opcode, handler)]
    IN  [interp |-> IF it1.mode = "MODE_CACHED" THEN tiered_enter_uncached_mode(it1) ELSE it1,
         heap |-> IF old_rule # NULL_ADDR THEN sfpm_rule_destroy(h1, old_rule) ELSE h1]

\* tiered_register_opcode that leaves the context's handler alone when the opcode
\* already has a rule
tiered_register_opcode_keep_handler(st, opcode, handler, addr) ==
    LET it == st.interp
        old_rule == it.rule_cache[opcode]
        found == find_rule(it.all_rules, it.all_rules_count, old_rule, 1)
        it1 == [it EXCEPT !.contexts[opcode].handler =
                              IF old_rule = NULL_ADDR THEN handler ELSE @,
                          !.rule_cache[opcode] = addr]
        it2 == IF found # 0
               THEN [it1 EXCEPT !.all_rules[found] = addr]
               ELSE [it1 EXCEPT
                       !.all_rules = store_at_count(@, it.all_rules_count, addr),
                       !.all_rules_count = @ + 1]
        h1 == [st.heap EXCEPT ![addr] = create_opcode_rule(opcode, handler)]
    IN  [interp |-> IF it2.mode = "MODE_CACHED" THEN tiered_enter_uncached_mode(it2) ELSE it2,
         heap |-> IF old_rule # NULL_ADDR THEN sfpm_rule_destroy(h1, old_rule) ELSE h1]

\* tiered_register_opcode whose new rule takes over the hook chains and the priority
\* of the rule it replaces
tiered_register_opcode_keep_hooks(st, opcode, handler, addr) ==
    LET it == st.interp
        old_rule == it.rule_cache[opcode]
        found == find_rule(it.all_rules, it.all_rules_count, old_rule, 1)
        it1 == [it EXCEPT !.contexts[opcode].handler = handler,
                          !.rule_cache[opcode] = addr]
        it2 == IF found # 0
               THEN [it1 EXCEPT !.all_rules[found] = addr]
               ELSE [it1 EXCEPT
                       !.all_rules_capacity =
                           IF it.all_rules_count >= @ THEN @ * 2 ELSE @,
                       !.all_rules = store_at_count(@, it.all_rules_count, addr),
                       !.all_rules_count = @ + 1]
        fresh == create_opcode_rule(opcode, handler)
        h1 == [st.heap EXCEPT ![addr] =
                  IF old_rule = NULL_ADDR THEN fresh
                  ELSE [st.heap[old_rule] EXCEPT !.criterias = fresh.criterias,
                                                 !.payload = fresh.payload,
                                                 !.payload_user_data = fresh.payload_user_data,
                                                 !.name = fresh.name]]
    IN  [interp |-> IF it2.mode = "MODE_CACHED" THEN tiered_enter_uncached_mode(it2) ELSE it2,
         heap |-> IF old_rule # NULL_ADDR THEN sfpm_rule_destroy(h1, old_rule) ELSE h1]

\* st is the dispatcher with the heap of its rules; addr is the block malloc returns
tiered_register_opcode(st, opcode, handler, addr) ==
    LET it == st.interp
        old_rule == it.rule_cache[opcode]
        found == find_rule(it.all_rules, it.all_rules_count, old_rule, 1)
        it1 == [it EXCEPT !.contexts[opcode].handler = handler,
                          !.rule_cache[opcode] = addr]
        it2 == IF found # 0
               THEN [it1 EXCEPT !.all_rules[found] = addr]
               ELSE [it1 EXCEPT
                       !.all_rules_capacity =
                           IF it.all_rules_count >= @ THEN @ * 2 ELSE @,
                       !.all_rules = store_at_count(@, it.all_rules_count, addr),
                       !.all_rules_count = @ + 1]
        h1 == [st.heap EXCEPT ![addr] = create_opcode_rule(opcode, handler)]
    IN  [interp |-> IF it2.mode = "MODE_CACHED" THEN tiered_enter_uncached_mode(it2) ELSE it2,
         heap |-> IF old_rule # NULL_ADDR THEN sfpm_rule_destroy(h1, old_rule) ELSE h1]

tiered_update_opcode(st, opcode, new_handler, addr) ==
    tiered_register_opcode(st, opcode, new_handler, addr)

\* tiered_unregister_opcode that destroys the rule and clears rule_cache but leaves the
\* flat array as it is
tiered_unregister_opcode_keep_slot(st, opcode) ==
    LET it == st.interp
        cached == it.rule_cache[opcode]
        it1 == IF cached = NULL_ADDR THEN it
               ELSE [it EXCEPT !.rule_cache[opcode] = NULL_ADDR]
    IN  [interp |-> IF it1.mode = "MODE_CACHED" THEN tiered_enter_uncached_mode(it1) ELSE it1,
         heap |-> IF cached # NULL_ADDR THEN sfpm_rule_destroy(st.heap, cached) ELSE st.heap]

tiered_unregister_opcode(st, opcode) ==
    LET it == st.interp
        cached == it.rule_cache[opcode]
        found == find_rule(it.all_rules, it.all_rules_count, cached, 1)
        it1 == IF cached = NULL_ADDR THEN it
               ELSE IF found = 0 THEN [it EXCEPT !.rule_cache[opcode] = NULL_ADDR]
               ELSE [it EXCEPT !.all_rules = shift_down(@, it.all_rules_count, found),
                               !.all_rules_count = @ - 1,
                               !.rule_cache[opcode] = NULL_ADDR]
    IN  [interp |-> IF it1.mode = "MODE_CACHED" THEN tiered_enter_uncached_mode(it1) ELSE it1,
         heap |-> IF cached # NULL_ADDR THEN sfpm_rule_destroy(st.heap, cached) ELSE st.heap]

(***************************************************************************)
(* The tiered dispatcher: dispatch                                         *)
(***************************************************************************)
handler_call(handler, operand) == [kind |-> "handler", fn |-> handler, operand |-> operand]

\* the index of the payload call in a call sequence, 0 when the payload was not called
payload_index(calls) ==
    LET at == {i \in 1 .. Len(calls) : calls[i].kind = "payload"}
    IN  IF at = {} THEN 0 ELSE CHOOSE i \in at : \A j \in at : i <= j

\* the payload of an opcode rule: the handler of the context the rule points at runs
\* on the vm; an exit(1) inside the handler ends the process before the after hooks
execute_opcode_handler(it, v, calls) ==
    LET k == payload_index(calls)
        ctx == it.contexts[calls[k].user_data]
        r == call_handler(ctx.handler, v, ctx.operand)
        upto == SubSeq(calls, 1, k) \o <<handler_call(ctx.handler, ctx.operand)>>
    IN  IF k = 0 THEN [vm |-> v, calls |-> calls, exit |-> "running"]
        ELSE IF r.exit # "running" THEN [vm |-> r.vm, calls |-> upto, exit |-> r.exit]
        ELSE [vm |-> r.vm, calls |-> upto \o SubSeq(calls, k + 1, Len(calls)),
              exit |-> "running"]

\* a dispatch counted only when the handler of the rule was called
dispatched_when_fired(it, v, calls, counter) ==
    LET r == execute_opcode_handler(it, v, calls)
    IN  [interp |-> IF r.exit = "running" /\ payload_index(calls) # 0
                    THEN [it EXCEPT ![counter] = @ + 1] ELSE it,
         vm |-> r.vm, calls |-> r.calls, exit |-> r.exit]

\* the rule has been executed: the dispatch is counted unless the process has ended
dispatched(it, v, calls, counter) ==
    LET r == execute_opcode_handler(it, v, calls)
    IN  [interp |-> IF r.exit = "running" THEN [it EXCEPT ![counter] = @ + 1] ELSE it,
         vm |-> r.vm, calls |-> r.calls, exit |-> r.exit]

\* all_rules[0 .. all_rules_count) as the rule objects the pointers refer to
rule_array(st) ==
    [i \in 1 .. st.interp.all_rules_count |-> st.heap[st.interp.all_rules[i]]]

\* tiered_execute_instruction whose slow path does not store the operand in the context
tiered_execute_instruction_stale_operand(st, v, instr) ==
    LET it == st.interp
        it1 == [it EXCEPT !.contexts[instr.op].vm = "vm",
                          !.contexts[instr.op].operand = instr.operand]
        it0 == [it EXCEPT !.contexts[instr.op].vm = "vm"]
        cached == it.rule_cache[instr.op]
        fs == sfpm_dict_fact_source_add(sfpm_dict_fact_source_create(2), "opcode",
                                        sfpm_value_from_int(instr.op))
    IN  IF it.mode = "MODE_CACHED"
        THEN IF cached # NULL_ADDR
             THEN {dispatched(it1, v, sfpm_rule_execute_payload(st.heap[cached]),
                              "cached_dispatches")}
             ELSE {[interp |-> it, vm |-> v, calls |-> << >>,
                    exit |-> "Unknown opcode in cached mode"]}
        ELSE {dispatched(it0, v, o.trace, "uncached_dispatches") :
                 o \in sfpm_match_outcomes(rule_array(st), fs, FALSE)}

\* tiered_execute_instruction whose fast path returns on an empty slot instead of
\* ending the process
tiered_execute_instruction_skip_unknown(st, v, instr) ==
    LET it == st.interp
        it1 == [it EXCEPT !.contexts[instr.op].vm = "vm",
                          !.contexts[instr.op].operand = instr.operand]
        cached == it.rule_cache[instr.op]
        fs == sfpm_dict_fact_source_add(sfpm_dict_fact_source_create(2), "opcode",
                                        sfpm_value_from_int(instr.op))
    IN  IF it.mode = "MODE_CACHED"
        THEN IF cached # NULL_ADDR
             THEN {dispatched(it1, v, sfpm_rule_execute_payload(st.heap[cached]),
                              "cached_dispatches")}
             ELSE {[interp |-> it, vm |-> v, calls |-> << >>, exit |-> "running"]}
        ELSE {dispatched(it1, v, o.trace, "uncached_dispatches") :
                 o \in sfpm_match_outcomes(rule_array(st), fs, FALSE)}

\* tiered_execute_instruction with a re-entrant slot: the operand the slot held on entry
\* is put back before the call returns
tiered_execute_instruction_restoring(st, v, instr) ==
    LET it == st.interp
        it1 == [it EXCEPT !.contexts[instr.op].vm = "vm",
                          !.contexts[instr.op].operand = instr.operand]
        cached == it.rule_cache[instr.op]
        fs == sfpm_dict_fact_source_add(sfpm_dict_fact_source_create(2), "opcode",
                                        sfpm_value_from_int(instr.op))
        restored(s) ==
            [s EXCEPT !.interp.contexts[instr.op].operand = it.contexts[instr.op].operand]
    IN  IF it.mode = "MODE_CACHED"
        THEN IF cached # NULL_ADDR
             THEN {restored(dispatched(it1, v, sfpm_rule_execute_payload(st.heap[cached]),
                                       "cached_dispatches"))}
             ELSE {[interp |-> it, vm |-> v, calls |-> << >>,
                    exit |-> "Unknown opcode in cached mode"]}
        ELSE {restored(dispatched(it1, v, o.trace, "uncached_dispatches")) :
                 o \in sfpm_match_outcomes(rule_array(st), fs, FALSE)}

\* the set of outcomes of one dispatch: [interp, vm, calls, exit]
tiered_execute_instruction(st, v, instr) ==
    LET it == st.interp
        it1 == [it EXCEPT !.contexts[instr.op].vm = "vm",
                          !.contexts[instr.op].operand = instr.operand]
        cached == it.rule_cache[instr.op]
        fs == sfpm_dict_fact_source_add(sfpm_dict_fact_source_create(2), "opcode",
                                        sfpm_value_from_int(instr.op))
    IN  IF it.mode = "MODE_CACHED"
        THEN IF cached # NULL_ADDR
             THEN {dispatched(it1, v, sfpm_rule_execute_payload(st.heap[cached]),
                              "cached_dispatches")}
             ELSE {[interp |-> it, vm |-> v, calls |-> << >>,
                    exit |-> "Unknown opcode in cached mode"]}
        ELSE {dispatched(it1, v, o.trace, "uncached_dispatches") :
                 o \in sfpm_match_outcomes(rule_array(st), fs, FALSE)}

\* the loop of tiered_run_program from the outcome r so far; h is the heap of the rules
RECURSIVE run_loop(_, _, _)
run_loop(r, h, program) ==
    IF r.exit = "running" /\ r.vm.pc < Len(program) /\ ~r.vm.halted
    THEN UNION {run_loop([interp |-> s.interp, vm |-> s.vm,
                          calls |-> r.calls \o s.calls, exit |-> s.exit], h, program) :
                  s \in tiered_execute_instruction(
                            [interp |-> r.interp, heap |-> h],
                            [r.vm EXCEPT !.pc = @ + 1], program[r.vm.pc + 1])}
    ELSE {r}

tiered_run_program(st, v, program) ==
    run_loop([interp |-> st.interp, vm |-> v, calls |-> << >>, exit |-> "running"],
             st.heap, program)

\* tiered_execute_instruction(instr) of a registered opcode during which code of the
\* firing calls tiered_execute_instruction(nested) on the same dispatcher and vm: at
\* site "hook" a before hook of the rule does, so the payload starts after the nested
\* call has returned; at site "payload" the handler does before its own work, its
\* arguments having been read from the slot when it was called
reentrant_execute_instruction(st, v, instr, nested, site) ==
    LET it == st.interp
        it1 == [it EXCEPT !.contexts[instr.op].vm = "vm",
                          !.contexts[instr.op].operand = instr.operand]
        counter == IF it.mode = "MODE_CACHED" THEN "cached_dispatches"
                   ELSE "uncached_dispatches"
        fs == sfpm_dict_fact_source_add(sfpm_dict_fact_source_create(2), "opcode",
                                        sfpm_value_from_int(instr.op))
        firings == IF it.mode = "MODE_CACHED"
                   THEN {sfpm_rule_execute_payload(st.heap[it.rule_cache[instr.op]])}
                   ELSE {o.trace : o \in sfpm_match_outcomes(rule_array(st), fs, FALSE)}
        inner == tiered_execute_instruction([interp |-> it1, heap |-> st.heap], v, nested)
        argument == it1.contexts[instr.op]
        after_hook(s, calls) ==
            LET r == dispatched(s.interp, s.vm, calls, counter)
            IN  [r EXCEPT !.calls = s.calls \o @]
        in_payload(s) ==
            LET r == call_handler(argument.handler, s.vm, argument.operand)
            IN  [interp |-> IF r.exit = "running"
                            THEN [s.interp EXCEPT ![counter] = @ + 1] ELSE s.interp,
                 vm |-> r.vm,
                 calls |-> s.calls \o <<handler_call(argument.handler, argument.operand)>>,
                 exit |-> r.exit]
    IN  {IF s.exit # "running" THEN s
         ELSE IF site = "hook" THEN after_hook(s, calls) ELSE in_payload(s) :
            s \in inner, calls \in firings}

(***************************************************************************)
(* The tiered dispatcher as a state machine: the host registers, updates   *)
(* and unregisters opcodes and switches the mode.                          *)
(***************************************************************************)
MaxVersion == 2

InitTiered ==
    /\ interp = tiered_init
    /\ heap = [a \in Addrs |-> NULL]
    /\ vm = vm_init
    /\ exit_status = "running"
    /\ handlers = [o \in Opcodes |-> NULL_FN]
    /\ snapshot = NULL
    /\ memory = NULL
    /\ file = NULL
    /\ saved = NULL
    /\ rules = << >>
    /\ facts = NULL
    /\ selected = NULL
    /\ rule = NULL
    /\ added = NoneAdded
    /\ trace = << >>
    /\ last = NoCall

\* the part of the pre-state the table operations are judged against
TableCall(op, opcode) ==
    [op |-> op, opcode |-> opcode, mode |-> interp.mode,
     cache_invalidations |-> interp.cache_invalidations,
     registered |-> opcode \in Opcodes /\ interp.rule_cache[opcode] # NULL_ADDR]

Register(opcode, handler, addr) ==
    /\ exit_status = "running"
    /\ addr \in FreeAddrs(heap)
    /\ LET st == tiered_register_opcode([interp |-> interp, heap |-> heap],
                                        opcode, handler, addr)
       IN  interp' = st.interp /\ heap' = st.heap
    /\ trace' = << >>
    /\ last' = TableCall("tiered_register_opcode", opcode)
    /\ handlers' = [handlers EXCEPT ![opcode] = handler]
    /\ UNCHANGED <<rules, facts, selected, rule, added, vm, exit_status, snapshot_vars>>

Update(opcode, new_handler, addr) ==
    /\ exit_status = "running"
    /\ addr \in FreeAddrs(heap)
    /\ LET st == tiered_update_opcode([interp |-> interp, heap |-> heap],
                                      opcode, new_handler, addr)
       IN  interp' = st.interp /\ heap' = st.heap
    /\ trace' = << >>
    /\ last' = TableCall("tiered_update_opcode", opcode)
    /\ handlers' = [handlers EXCEPT ![opcode] = new_handler]
    /\ UNCHANGED <<rules, facts, selected, rule, added, vm, exit_status, snapshot_vars>>

Unregister(opcode) ==
    /\ exit_status = "running"
    /\ LET st == tiered_unregister_opcode([interp |-> interp, heap |-> heap], opcode)
       IN  interp' = st.interp /\ heap' = st.heap
    /\ trace' = << >>
    /\ last' = TableCall("tiered_unregister_opcode", opcode)
    /\ handlers' = [handlers EXCEPT ![opcode] = NULL_FN]
    /\ UNCHANGED <<rules, facts, selected, rule, added, vm, exit_status, snapshot_vars>>

EnterCachedMode ==
    /\ exit_status = "running"
    /\ interp.mode = "MODE_CACHED" \/ interp.cache_version < MaxVersion
    /\ interp' = tiered_enter_cached_mode(interp)
    /\ trace' = << >>
    /\ last' = TableCall("tiered_enter_cached_mode", 0)
    /\ UNCHANGED <<rules, facts, selected, rule, added, heap, vm, exit_status, handlers, snapshot_vars>>

EnterUncachedMode ==
    /\ exit_status = "running"
    /\ interp' = tiered_enter_uncached_mode(interp)
    /\ trace' = << >>
    /\ last' = TableCall("tiered_enter_uncached_mode", 0)
    /\ UNCHANGED <<rules, facts, selected, rule, added, heap, vm, exit_status, handlers, snapshot_vars>>

NextTiered ==
    \/ \E opcode \in Opcodes : \E handler \in Handlers(opcode) : \E addr \in Addrs :
          Register(opcode, handler, addr)
    \/ \E opcode \in Opcodes : \E handler \in Handlers(opcode) : \E addr \in Addrs :
          Update(opcode, handler, addr)
    \/ \E opcode \in Opcodes : Unregister(opcode)
    \/ EnterCachedMode
    \/ EnterUncachedMode

SpecTiered == InitTiered /\ [][NextTiered]_vars

(***************************************************************************)
(* The tiered dispatcher as a state machine: the host configures the       *)
(* dispatcher, attaches hooks to the opcode rules and runs programs.       *)
(***************************************************************************)
MaxDispatches == 3

MaxDispatchHooks == 1

Instructions ==
    {instruction(OP_PUSH, 1), instruction(OP_PUSH, 2),
     instruction(OP_ADD, 0), instruction(OP_HALT, 0)}

Programs == UNION {[1 .. n -> Instructions] : n \in 1 .. MaxDispatches}

DispatchHookNodes == {before_hook_1, hook_that_aborts}

\* the hooks attached to the live rules, over all chains
RECURSIVE hooks_attached(_, _)
hooks_attached(h, as) ==
    IF as = {} THEN 0
    ELSE LET a == CHOOSE x \in as : TRUE
         IN  (IF h[a] = NULL THEN 0 ELSE hook_total(h[a])) + hooks_attached(h, as \ {a})

\* before the first dispatch the host registers the opcodes it has not registered yet
RegisterFirstFree(opcode, handler) ==
    /\ FreeAddrs(heap) # {}
    /\ interp.cached_dispatches + interp.uncached_dispatches = 0
    /\ interp.rule_cache[opcode] = NULL_ADDR
    /\ Register(opcode, handler, first_free(heap))

AttachBeforeHook(opcode, node) ==
    /\ exit_status = "running"
    /\ interp.cached_dispatches + interp.uncached_dispatches = 0
    /\ interp.rule_cache[opcode] # NULL_ADDR
    /\ hooks_attached(heap, Addrs) < MaxDispatchHooks
    /\ heap' = [heap EXCEPT ![interp.rule_cache[opcode]] =
                                sfpm_rule_add_before_hook(@, node)]
    /\ trace' = << >>
    /\ last' = NoCall
    /\ UNCHANGED <<rules, facts, selected, rule, added, interp, vm, exit_status, handlers, snapshot_vars>>

\* vm_init(&vm); tiered_run_program(&interp, &vm, program, size)
RunProgram(program) ==
    /\ exit_status = "running"
    /\ interp.cached_dispatches + interp.uncached_dispatches + Len(program)
          <= MaxDispatches
    /\ \E r \in tiered_run_program([interp |-> interp, heap |-> heap], vm_init, program) :
          /\ interp' = r.interp
          /\ vm' = r.vm
          /\ trace' = r.calls
          /\ exit_status' = r.exit
    /\ last' = [op |-> "tiered_run_program", program |-> program, interp |-> interp]
    /\ UNCHANGED <<rules, facts, selected, rule, added, heap, handlers, snapshot_vars>>

NextDispatch ==
    \/ \E opcode \in Opcodes : \E handler \in Handlers(opcode) :
          RegisterFirstFree(opcode, handler)
    \/ \E opcode \in Opcodes : \E node \in DispatchHookNodes :
          AttachBeforeHook(opcode, node)
    \/ EnterCachedMode
    \/ EnterUncachedMode
    \/ \E program \in Programs : RunProgram(program)

SpecDispatch == InitTiered /\ [][NextDispatch]_vars

(***************************************************************************)
(* Properties of the tiered dispatcher's tables                            *)
(***************************************************************************)
TableChanged ==
    last.op \in {"tiered_register_opcode", "tiered_update_opcode",
                 "tiered_unregister_opcode"}

RegisteredOpcodes(it) == {o \in Opcodes : it.rule_cache[o] # NULL_ADDR}

\* C8: when register_opcode, update_opcode or unregister_opcode was called on a
\* dispatcher in cached mode, the mode after the call is uncached and
\* cache_invalidations is exactly one greater than before the call.
C8_CacheInvalidation ==
    (TableChanged /\ last.mode = "MODE_CACHED")
        => /\ interp.mode = "MODE_UNCACHED"
           /\ interp.cache_invalidations = last.cache_invalidations + 1

\* the cache was rebuilt once and an unregister call, here of an opcode that was
\* never registered, invalidated it a second time
C8_Witness ==
    /\ last.op = "tiered_unregister_opcode"
    /\ last.mode = "MODE_CACHED"
    /\ ~last.registered
    /\ last.cache_invalidations = 1
    /\ interp.cache_invalidations = 2
    /\ interp.all_rules_count = 2

\* C10: between calls, all_rules[0 .. all_rules_count) holds exactly the non-null
\* entries of rule_cache, each exactly once, and all_rules_count is the number of
\* registered opcodes.
C10_TableConsistency ==
    LET count == interp.all_rules_count
    IN  /\ count <= Len(interp.all_rules)
        /\ {interp.all_rules[i] : i \in 1 .. count}
              = {interp.rule_cache[o] : o \in RegisteredOpcodes(interp)}
        /\ \A i, j \in 1 .. count :
              interp.all_rules[i] = interp.all_rules[j] => i = j
        /\ count = Cardinality(RegisteredOpcodes(interp))

\* a registered opcode was registered again while two others were registered, after
\* an unregister call had left a stale slot past the count at some point
C10_Witness ==
    /\ last.op = "tiered_update_opcode"
    /\ last.registered
    /\ last.opcode = OP_ADD
    /\ interp.all_rules_count = 3
    /\ interp.all_rules[1] = interp.rule_cache[OP_ADD]
    /\ interp.contexts[OP_ADD].handler = "op_add_buggy"
    /\ interp.contexts[OP_HALT].handler = "op_halt"
    /\ interp.cache_invalidations = 2

(***************************************************************************)
(* Properties of dispatch                                                  *)
(***************************************************************************)
Ran == last.op = "tiered_run_program"

\* the dispatcher the run started from, switched to the other mode
other_mode(it) ==
    IF it.mode = "MODE_CACHED"
    THEN tiered_enter_uncached_mode(it)
    ELSE tiered_enter_cached_mode(it)

\* the runs of the same program from the same tables in the other mode
OtherRuns ==
    tiered_run_program([interp |-> other_mode(last.interp), heap |-> heap],
                       vm_init, last.program)

HandlerCalls(calls) == SelectSeq(calls, LAMBDA c : c.kind = "handler")

\* the run r and the run that took place invoked the same handlers with the same
\* operands and left the same stack, pc and halted flag
SameRun(r) ==
    /\ HandlerCalls(r.calls) = HandlerCalls(trace)
    /\ r.vm.stack = vm.stack
    /\ r.vm.pc = vm.pc
    /\ r.vm.halted = vm.halted

\* the run r and the run that took place ended the same way and left the same
\* context slots and tables
SameDispatcher(r) ==
    /\ r.exit = exit_status
    /\ r.interp.contexts = interp.contexts
    /\ r.interp.rule_cache = interp.rule_cache
    /\ r.interp.all_rules = interp.all_rules
    /\ r.interp.all_rules_count = interp.all_rules_count

AllRegistered ==
    \A k \in 1 .. Len(last.program) :
        last.program[k].op \in RegisteredOpcodes(last.interp)

\* C9 as stated: for every set of registered opcodes and every program, the run in
\* cached mode and the run in uncached mode invoke the same handlers with the same
\* operands and leave the same stack, pc and halted flag.
C9_DispatchEquivalence_Original ==
    Ran => \A r \in OtherRuns : SameRun(r)

\* C9: for every set of registered opcodes, with hooks attached to their rules, and
\* every program all of whose opcodes are registered, the run in cached mode and the
\* run in uncached mode invoke the same handlers with the same operands, end the
\* same way and leave the same stack, pc and halted flag; only the counters differ.
C9_DispatchEquivalence ==
    (Ran /\ AllRegistered)
        => \A r \in OtherRuns : SameRun(r) /\ SameDispatcher(r)

\* PUSH 1, PUSH 2, ADD ran in uncached mode with a hook on the rule of ADD and
\* left 3 on the stack
C9_Witness ==
    /\ Ran
    /\ AllRegistered
    /\ last.interp.mode = "MODE_UNCACHED"
    /\ last.program = <<instruction(OP_PUSH, 1), instruction(OP_PUSH, 2),
                        instruction(OP_ADD, 0)>>
    /\ count_hooks_in_chain(heap[interp.rule_cache[OP_ADD]].before_hook_chain) = 1
    /\ vm.stack = <<3>>
    /\ interp.uncached_dispatches = 3

(***************************************************************************)
(* Hot-swap: the host registers opcodes, replaces the handler of a         *)
(* registered opcode at any time, switches the mode and runs programs.     *)
(***************************************************************************)
\* tiered_update_opcode with a handler other than the one in place
HotSwap(opcode, new_handler) ==
    /\ FreeAddrs(heap) # {}
    /\ interp.rule_cache[opcode] # NULL_ADDR
    /\ handlers[opcode] # new_handler
    /\ Update(opcode, new_handler, first_free(heap))

NextHotSwap ==
    \/ \E opcode \in Opcodes : \E handler \in Handlers(opcode) :
          RegisterFirstFree(opcode, handler)
    \/ \E opcode \in Opcodes : \E handler \in Handlers(opcode) :
          HotSwap(opcode, handler)
    \/ EnterCachedMode
    \/ EnterUncachedMode
    \/ \E program \in Programs : RunProgram(program)

SpecHotSwap == InitTiered /\ [][NextHotSwap]_vars

\* the host changes the handlers of two opcodes, switches modes and dispatches single
\* instructions, in any order; malloc returns the first free block
ModeOpcodes == {OP_PUSH, OP_HALT}

NextModes ==
    \/ \E opcode \in ModeOpcodes : \E handler \in Handlers(opcode) :
          FreeAddrs(heap) # {} /\ Register(opcode, handler, first_free(heap))
    \/ \E opcode \in ModeOpcodes : \E handler \in Handlers(opcode) :
          FreeAddrs(heap) # {} /\ Update(opcode, handler, first_free(heap))
    \/ \E opcode \in ModeOpcodes : Unregister(opcode)
    \/ EnterCachedMode
    \/ EnterUncachedMode
    \/ \E program \in {q \in Programs : Len(q) = 1} : RunProgram(program)

SpecModes == InitTiered /\ [][NextModes]_vars

\* the handler calls a run of the program makes when instruction k invokes the
\* handler of the host's latest register / update call for its opcode
ExpectedHandlerCalls(program, upto) ==
    [k \in 1 .. upto |->
        handler_call(handlers[program[k].op], program[k].operand)]

\* C11: the handler in the context of every registered opcode is the one of the
\* latest register / update call for that opcode, so an update changes no other
\* opcode; and every dispatch of a run, cached or uncached, invokes that handler
\* and never one registered before.
C11_HotSwap ==
    /\ \A o \in RegisteredOpcodes(interp) : interp.contexts[o].handler = handlers[o]
    /\ (Ran /\ AllRegistered)
          => HandlerCalls(trace) = ExpectedHandlerCalls(last.program, vm.pc)

\* ADD was registered as op_add_buggy and swapped to op_add (its rule is the fourth
\* one allocated); PUSH 1, PUSH 2, ADD then ran in cached mode and left 3
C11_Witness ==
    /\ Ran
    /\ last.interp.mode = "MODE_CACHED"
    /\ RegisteredOpcodes(interp) = Opcodes
    /\ interp.rule_cache[OP_ADD] = 4
    /\ handlers[OP_ADD] = "op_add"
    /\ last.program = <<instruction(OP_PUSH, 1), instruction(OP_PUSH, 2),
                        instruction(OP_ADD, 0)>>
    /\ vm.stack = <<3>>

(***************************************************************************)
(* The snapshot engine (snapshot.c)                                        *)
(***************************************************************************)
SFPM_SNAPSHOT_MAGIC == 1397116237

SFPM_SNAPSHOT_VERSION == 1

MAX_REGIONS == 64

\* the host's memory is the cells 1 .. MemSize; base address 0 is the null pointer
MemSize == 2

NULL_BASE == 0

\* sfpm_memory_region_t
memory_region(base_address, size, name, is_dynamic) ==
    [base_address |-> base_address, size |-> size, name |-> name,
     is_dynamic |-> is_dynamic]

\* char description[256]
DESCRIPTION_SIZE == 256

\* a C string: its text and its length in characters
c_string(text, len) == [text |-> text, len |-> len]

\* strncpy(dst, src, sizeof(dst) - 1) into a zeroed or then terminated buffer: the
\* first 255 characters of src
strncpy_description(src) ==
    c_string(src.text, IF src.len < DESCRIPTION_SIZE - 1 THEN src.len
                       ELSE DESCRIPTION_SIZE - 1)

sfpm_snapshot_create ==
    [regions |-> << >>, region_count |-> 0,
     description |-> strncpy_description(c_string("SFPM Snapshot", 13))]

sfpm_snapshot_set_description(snap, description) ==
    IF snap = NULL \/ description = NULL THEN snap
    ELSE [snap EXCEPT !.description = strncpy_description(description)]

\* regions[region_count] = *region; region_count++
store_region(regions, count, region) ==
    IF count < Len(regions)
    THEN [regions EXCEPT ![count + 1] = region]
    ELSE Append(regions, region)

\* sfpm_snapshot_add_region with the always-appending body: no argument check, no cap
sfpm_snapshot_add_region_unchecked(snap, region) ==
    [snapshot |-> [snap EXCEPT !.regions = store_region(@, snap.region_count, region),
                               !.region_count = @ + 1],
     ret |-> TRUE]

\* the descriptor after the call and the value returned
sfpm_snapshot_add_region(snap, region) ==
    IF snap = NULL \/ region = NULL
    THEN [snapshot |-> snap, ret |-> FALSE]
    ELSE IF region.base_address = NULL_BASE \/ region.size = 0
    THEN [snapshot |-> snap, ret |-> FALSE]
    ELSE IF snap.region_count >= MAX_REGIONS
    THEN [snapshot |-> snap, ret |-> FALSE]
    ELSE [snapshot |->
             [snap EXCEPT
                !.regions = store_region(@, snap.region_count,
                                [region EXCEPT !.name =
                                    IF @ = NULL_FN THEN "unnamed" ELSE @]),
                !.region_count = @ + 1],
          ret |-> TRUE]

\* the bytes of a region, read from the memory mem
region_bytes(mem, region) ==
    [k \in 1 .. region.size |-> mem[region.base_address + k - 1]]

RECURSIVE sum_sizes(_, _)
sum_sizes(regions, count) ==
    IF count = 0 THEN 0 ELSE regions[count].size + sum_sizes(regions, count - 1)

\* one fwrite of a header field, of one name byte, of one byte of region memory
file_item(t, v) == [t |-> t, v |-> v]

\* the record of one region: [size u64][is_dynamic u8][name_len u32][name bytes][raw bytes]
region_record(mem, region) ==
    LET name_len == IF region.name = NULL_FN THEN 0 ELSE Len(region.name)
    IN  <<file_item("region_size", region.size),
          file_item("is_dynamic", IF region.is_dynamic THEN 1 ELSE 0),
          file_item("name_len", name_len)>>
        \o [k \in 1 .. name_len |-> file_item("name", k)]
        \o [k \in 1 .. region.size |-> file_item("byte", region_bytes(mem, region)[k])]

RECURSIVE region_records(_, _, _, _)
region_records(mem, regions, count, i) ==
    IF i > count THEN << >>
    ELSE region_record(mem, regions[i]) \o region_records(mem, regions, count, i + 1)

\* the file written and the value returned; now is the value of time(NULL)
sfpm_snapshot_save(snap, mem, old_file, now) ==
    IF snap = NULL
    THEN [file |-> old_file, ret |-> FALSE]
    ELSE [file |-> [exists |-> TRUE, items |->
             <<file_item("magic", SFPM_SNAPSHOT_MAGIC),
               file_item("metadata",
                   [version |-> SFPM_SNAPSHOT_VERSION, timestamp |-> now,
                    total_size |-> sum_sizes(snap.regions, snap.region_count),
                    num_regions |-> snap.region_count,
                    description |-> strncpy_description(snap.description)])>>
             \o region_records(mem, snap.regions, snap.region_count, 1)],
          ret |-> TRUE]

\* read_into that stores the first byte read in every cell
read_into_first_byte(mem, region, f, pos, got) ==
    [a \in DOMAIN mem |->
        IF a >= region.base_address /\ a < region.base_address + got
        THEN f[pos].v
        ELSE mem[a]]

\* fread(base_address, 1, size, file) from item pos on: the bytes the file still has
\* are stored, also when they are fewer than size
read_into(mem, region, f, pos, got) ==
    [a \in DOMAIN mem |->
        IF a >= region.base_address /\ a < region.base_address + got
        THEN f[pos + (a - region.base_address)].v
        ELSE mem[a]]

\* restore_loop without the comparison of the stored size with the descriptor's
RECURSIVE restore_loop_any_size(_, _, _, _, _, _)
restore_loop_any_size(f, pos, snap, mem, i, num_regions) ==
    IF i > num_regions THEN [memory |-> mem, ret |-> TRUE]
    ELSE IF pos + 2 > Len(f) THEN [memory |-> mem, ret |-> FALSE]
    ELSE LET region_size == f[pos].v
             data == pos + 3 + f[pos + 2].v
             left == IF Len(f) >= data THEN Len(f) - data + 1 ELSE 0
             got == IF left < snap.regions[i].size THEN left ELSE snap.regions[i].size
             mem1 == read_into(mem, snap.regions[i], f, data, got)
         IN  IF got < snap.regions[i].size THEN [memory |-> mem1, ret |-> FALSE]
             ELSE restore_loop_any_size(f, data + region_size, snap, mem1, i + 1,
                                        num_regions)

\* the region loop of sfpm_snapshot_restore from region i (1-based), the file
\* position at item pos
RECURSIVE restore_loop(_, _, _, _, _, _)
restore_loop(f, pos, snap, mem, i, num_regions) ==
    IF i > num_regions THEN [memory |-> mem, ret |-> TRUE]
    ELSE IF pos + 2 > Len(f) THEN [memory |-> mem, ret |-> FALSE]
    ELSE LET region_size == f[pos].v
             data == pos + 3 + f[pos + 2].v
             left == IF Len(f) >= data THEN Len(f) - data + 1 ELSE 0
             got == IF left < region_size THEN left ELSE region_size
             mem1 == read_into(mem, snap.regions[i], f, data, got)
         IN  IF region_size # snap.regions[i].size THEN [memory |-> mem, ret |-> FALSE]
             ELSE IF got < region_size THEN [memory |-> mem1, ret |-> FALSE]
             ELSE restore_loop(f, data + region_size, snap, mem1, i + 1, num_regions)

\* sfpm_snapshot_restore that goes on after a bad magic number
sfpm_snapshot_restore_any_magic(file_, snap, mem) ==
    LET f == file_.items
    IN  IF snap = NULL \/ ~file_.exists THEN [memory |-> mem, ret |-> FALSE]
        ELSE IF Len(f) < 2 THEN [memory |-> mem, ret |-> FALSE]
        ELSE IF f[2].v.version # SFPM_SNAPSHOT_VERSION THEN [memory |-> mem, ret |-> FALSE]
        ELSE IF f[2].v.num_regions # snap.region_count THEN [memory |-> mem, ret |-> FALSE]
        ELSE restore_loop(f, 3, snap, mem, 1, f[2].v.num_regions)

\* the memory after the call and the value returned; a file that does not exist
\* makes fopen fail
sfpm_snapshot_restore(file_, snap, mem) ==
    LET f == file_.items
    IN  IF snap = NULL \/ ~file_.exists THEN [memory |-> mem, ret |-> FALSE]
        ELSE IF Len(f) < 1 THEN [memory |-> mem, ret |-> FALSE]
        ELSE IF f[1].v # SFPM_SNAPSHOT_MAGIC THEN [memory |-> mem, ret |-> FALSE]
        ELSE IF Len(f) < 2 THEN [memory |-> mem, ret |-> FALSE]
        ELSE IF f[2].v.version # SFPM_SNAPSHOT_VERSION THEN [memory |-> mem, ret |-> FALSE]
        ELSE IF f[2].v.num_regions # snap.region_count THEN [memory |-> mem, ret |-> FALSE]
        ELSE restore_loop(f, 3, snap, mem, 1, f[2].v.num_regions)

\* sfpm_snapshot_read_metadata that goes on after a bad magic number
sfpm_snapshot_read_metadata_any_magic(file_, metadata_null) ==
    LET f == file_.items
    IN  IF metadata_null \/ ~file_.exists THEN [ret |-> FALSE, metadata |-> NULL]
        ELSE IF Len(f) < 2 THEN [ret |-> FALSE, metadata |-> NULL]
        ELSE [ret |-> TRUE, metadata |-> f[2].v]

\* the value returned and, when it is true, the metadata stored through the out
\* pointer; metadata_null says that the out pointer is null
sfpm_snapshot_read_metadata(file_, metadata_null) ==
    LET f == file_.items
    IN  IF metadata_null \/ ~file_.exists THEN [ret |-> FALSE, metadata |-> NULL]
        ELSE IF Len(f) < 1 THEN [ret |-> FALSE, metadata |-> NULL]
        ELSE IF f[1].v # SFPM_SNAPSHOT_MAGIC THEN [ret |-> FALSE, metadata |-> NULL]
        ELSE IF Len(f) < 2 THEN [ret |-> FALSE, metadata |-> NULL]
        ELSE [ret |-> TRUE, metadata |-> f[2].v]

(***************************************************************************)
(* The snapshot engine as a state machine: the host declares regions,      *)
(* writes its memory, saves, restores; the file may be damaged or removed. *)
(***************************************************************************)
MaxRegions == 2

Bytes == {0, 1}

Cells == 1 .. MemSize

\* the regions that lie inside the host's memory; they may overlap
ValidRegions ==
    {memory_region(p[1], p[2], "d", FALSE) :
        p \in {q \in Cells \X (1 .. MemSize) : q[1] + q[2] - 1 <= MemSize}}

NoFile == [exists |-> FALSE, items |-> << >>]

InitSnapshot ==
    /\ snapshot = sfpm_snapshot_create
    /\ memory = [a \in Cells |-> 0]
    /\ file = NoFile
    /\ saved = NULL
    /\ rules = << >>
    /\ facts = NULL
    /\ selected = NULL
    /\ rule = NULL
    /\ added = NoneAdded
    /\ trace = << >>
    /\ last = NoCall
    /\ interp = NULL
    /\ heap = NULL
    /\ vm = NULL
    /\ exit_status = "running"
    /\ handlers = NULL

\* sfpm_snapshot_destroy of the descriptor in use and sfpm_snapshot_create of a new one
SnapshotCreate ==
    /\ snapshot.region_count > 0
    /\ snapshot' = sfpm_snapshot_create
    /\ last' = NoCall
    /\ UNCHANGED <<rules, facts, selected, rule, added, trace, tiered_vars,
                   memory, file, saved>>

AddRegion(region) ==
    /\ snapshot.region_count < MaxRegions
    /\ snapshot' = sfpm_snapshot_add_region(snapshot, region).snapshot
    /\ last' = NoCall
    /\ UNCHANGED <<rules, facts, selected, rule, added, trace, tiered_vars,
                   memory, file, saved>>

\* the host stores a byte in its memory
WriteByte(a, b) ==
    /\ memory[a] # b
    /\ memory' = [memory EXCEPT ![a] = b]
    /\ last' = NoCall
    /\ UNCHANGED <<rules, facts, selected, rule, added, trace, tiered_vars,
                   snapshot, file, saved>>

SnapshotSave ==
    /\ LET r == sfpm_snapshot_save(snapshot, memory, file, 0)
       IN  /\ file' = r.file
           /\ saved' = [file |-> r.file, description |-> snapshot.description,
                        contents |-> [i \in 1 .. snapshot.region_count |->
                                         region_bytes(memory, snapshot.regions[i])]]
           /\ last' = [op |-> "sfpm_snapshot_save", ret |-> r.ret]
    /\ UNCHANGED <<rules, facts, selected, rule, added, trace, tiered_vars,
                   snapshot, memory>>

SnapshotRestore ==
    /\ LET r == sfpm_snapshot_restore(file, snapshot, memory)
       IN  /\ memory' = r.memory
           /\ last' = [op |-> "sfpm_snapshot_restore", ret |-> r.ret,
                       memory |-> memory]
    /\ UNCHANGED <<rules, facts, selected, rule, added, trace, tiered_vars,
                   snapshot, file, saved>>

\* the descriptions the host sets: that of test_read_metadata, one longer than the
\* buffer, and a null pointer
Descriptions ==
    {c_string("Metadata test snapshot", 22), c_string("long", DESCRIPTION_SIZE + 44), NULL}

SetDescription(description) ==
    /\ snapshot' = sfpm_snapshot_set_description(snapshot, description)
    /\ last' = [op |-> "sfpm_snapshot_set_description", description |-> description]
    /\ UNCHANGED <<rules, facts, selected, rule, added, trace, tiered_vars,
                   memory, file, saved>>

ReadMetadata(metadata_null) ==
    /\ LET r == sfpm_snapshot_read_metadata(file, metadata_null)
       IN  last' = [op |-> "sfpm_snapshot_read_metadata", ret |-> r.ret,
                    metadata |-> r.metadata, metadata_null |-> metadata_null,
                    memory |-> memory]
    /\ UNCHANGED <<rules, facts, selected, rule, added, trace, tiered_vars,
                   snapshot, memory, file, saved>>

\* the file is deleted
RemoveFile ==
    /\ file.exists
    /\ file' = NoFile
    /\ last' = NoCall
    /\ UNCHANGED <<rules, facts, selected, rule, added, trace, tiered_vars,
                   snapshot, memory, saved>>

\* the first four bytes of the saved file are overwritten
CorruptMagic ==
    /\ saved # NULL
    /\ file = saved.file
    /\ file' = [file EXCEPT !.items[1].v = 0]
    /\ last' = NoCall
    /\ UNCHANGED <<rules, facts, selected, rule, added, trace, tiered_vars,
                   snapshot, memory, saved>>

\* the saved file carries the version number of another format
OtherVersion ==
    /\ saved # NULL
    /\ file = saved.file
    /\ file' = [file EXCEPT !.items[2].v.version = SFPM_SNAPSHOT_VERSION + 1]
    /\ last' = NoCall
    /\ UNCHANGED <<rules, facts, selected, rule, added, trace, tiered_vars,
                   snapshot, memory, saved>>

\* the saved file is cut after its first n items
Truncate(n) ==
    /\ saved # NULL
    /\ file = saved.file
    /\ n < Len(file.items)
    /\ file' = [file EXCEPT !.items = SubSeq(@, 1, n)]
    /\ last' = NoCall
    /\ UNCHANGED <<rules, facts, selected, rule, added, trace, tiered_vars,
                   snapshot, memory, saved>>

NextSnapshot ==
    \/ SnapshotCreate
    \/ \E region \in ValidRegions : AddRegion(region)
    \/ \E a \in Cells : \E b \in Bytes : WriteByte(a, b)
    \/ SnapshotSave
    \/ SnapshotRestore
    \/ RemoveFile
    \/ CorruptMagic
    \/ OtherVersion
    \/ \E n \in 0 .. (Len(file.items) - 1) : Truncate(n)

SpecSnapshot == InitSnapshot /\ [][NextSnapshot]_vars

\* the host describes and saves its descriptor and reads the metadata of the file,
\* which may have been removed or damaged in between
NextMetadata ==
    \/ SnapshotCreate
    \/ \E region \in ValidRegions : AddRegion(region)
    \/ \E description \in Descriptions : SetDescription(description)
    \/ SnapshotSave
    \/ \E metadata_null \in BOOLEAN : ReadMetadata(metadata_null)
    \/ RemoveFile
    \/ CorruptMagic
    \/ OtherVersion
    \/ \E n \in 0 .. (Len(file.items) - 1) : Truncate(n)

SpecMetadata == InitSnapshot /\ [][NextMetadata]_vars

(***************************************************************************)
(* Properties of the snapshot engine                                       *)
(***************************************************************************)
Restored == last.op = "sfpm_snapshot_restore"

\* the file is the one the latest save wrote
FileAsSaved == saved # NULL /\ file = saved.file

\* the descriptor has as many regions as were saved, of the same sizes in the same order
SameLayout ==
    /\ snapshot.region_count = Len(saved.contents)
    /\ \A i \in 1 .. snapshot.region_count :
          snapshot.regions[i].size = Len(saved.contents[i])

Overlap(r1, r2) ==
    /\ r1.base_address < r2.base_address + r2.size
    /\ r2.base_address < r1.base_address + r1.size

NoOverlap ==
    \A i, j \in 1 .. snapshot.region_count :
        i # j => ~Overlap(snapshot.regions[i], snapshot.regions[j])

RegionsAsSaved ==
    \A i \in 1 .. snapshot.region_count :
        region_bytes(memory, snapshot.regions[i]) = saved.contents[i]

\* C12 as stated: save followed by restore into a descriptor with the same number of
\* regions of the same sizes in the same order returns true and makes every target
\* region equal to the saved content of the region at the same index.
C12_RoundTrip_Original ==
    (Restored /\ FileAsSaved /\ SameLayout) => (last.ret /\ RegionsAsSaved)

\* C12: save followed by restore into a descriptor with the same number of regions of
\* the same sizes in the same order, no two of them overlapping, returns true and
\* makes every target region equal to the saved content of the region at the same
\* index; with overlapping target regions restore still returns true.
C12_RoundTrip ==
    (Restored /\ FileAsSaved /\ SameLayout)
        => (last.ret /\ (NoOverlap => RegionsAsSaved))

\* two one-byte regions were saved and restored, in the other order of addresses,
\* over memory that differed in both bytes
C12_Witness ==
    /\ Restored
    /\ FileAsSaved
    /\ SameLayout
    /\ NoOverlap
    /\ last.ret
    /\ snapshot.region_count = 2
    /\ snapshot.regions[1].base_address = 2
    /\ saved.contents = <<<<0>>, <<1>>>>
    /\ last.memory = [a \in Cells |-> IF a = 1 THEN 0 ELSE 1]
    /\ memory = [a \in Cells |-> IF a = 1 THEN 1 ELSE 0]

MagicDiffers ==
    file.exists /\ Len(file.items) >= 1 /\ file.items[1].v # SFPM_SNAPSHOT_MAGIC

VersionDiffers ==
    file.exists /\ Len(file.items) >= 2
        /\ file.items[2].v.version # SFPM_SNAPSHOT_VERSION

CountDiffers ==
    file.exists /\ Len(file.items) >= 2
        /\ file.items[2].v.num_regions # snapshot.region_count

\* the file is as saved, with as many regions as the descriptor, and the size stored
\* for region i is not the size the descriptor declares for it
SizeDiffers(i) ==
    /\ FileAsSaved
    /\ snapshot.region_count = Len(saved.contents)
    /\ i \in 1 .. snapshot.region_count
    /\ snapshot.regions[i].size # Len(saved.contents[i])

Unmodified(j) ==
    region_bytes(memory, snapshot.regions[j]) = region_bytes(last.memory, snapshot.regions[j])

RejectsBadFile ==
    (MagicDiffers \/ VersionDiffers \/ CountDiffers
        \/ \E i \in 1 .. snapshot.region_count : SizeDiffers(i)) => ~last.ret

\* C13 as stated: restore returns false when the magic number, the version, the region
\* count or the size of some region i differs; in the size case region i and every
\* region after i are left unmodified.
C13_Rejection_Original ==
    Restored =>
        /\ RejectsBadFile
        /\ \A i \in 1 .. snapshot.region_count :
              SizeDiffers(i) => \A j \in i .. snapshot.region_count : Unmodified(j)

\* C13: restore returns false when the magic number, the version, the region count or
\* the size of some region i differs; in the size case region i and every region after
\* i hold the bytes they held before the call, wherever no region before i overlaps
\* them.
C13_Rejection ==
    Restored =>
        /\ RejectsBadFile
        /\ \A i \in 1 .. snapshot.region_count :
              SizeDiffers(i) =>
                  \A j \in i .. snapshot.region_count :
                      (\A k \in 1 .. (i - 1) :
                           ~Overlap(snapshot.regions[k], snapshot.regions[j]))
                          => Unmodified(j)

\* region 1 was restored and changed memory, then the size stored for region 2 was
\* found to differ and restore returned false
C13_Witness ==
    /\ Restored
    /\ ~last.ret
    /\ NoOverlap
    /\ snapshot.region_count = 2
    /\ ~SizeDiffers(1)
    /\ SizeDiffers(2)
    /\ memory # last.memory
    /\ Unmodified(2)

\* the call fails before the region loop: the file cannot be opened, the magic number
\* is missing or wrong, the metadata is missing, the version or the region count differs
FailsBeforeLoop ==
    \/ ~file.exists
    \/ Len(file.items) < 2
    \/ MagicDiffers
    \/ VersionDiffers
    \/ CountDiffers

\* C14: a restore that fails before the region loop (file cannot be opened, bad or
\* missing magic number, truncated metadata, version mismatch, region-count mismatch)
\* returns false and modifies no byte of any declared region.
C14_FrameOnEarlyFailure ==
    (Restored /\ FailsBeforeLoop) =>
        /\ ~last.ret
        /\ \A j \in 1 .. snapshot.region_count : Unmodified(j)
        /\ memory = last.memory

\* a saved file whose magic number was overwritten was restored into a descriptor of
\* the saved layout while memory differed from the saved contents
C14_Witness ==
    /\ Restored
    /\ MagicDiffers
    /\ ~VersionDiffers
    /\ ~CountDiffers
    /\ snapshot.region_count = 2
    /\ SameLayout
    /\ ~RegionsAsSaved
    /\ ~last.ret

(***************************************************************************)
(* The descriptor alone: the host calls sfpm_snapshot_add_region with good  *)
(* and bad arguments until the descriptor is full.                          *)
(***************************************************************************)
\* the declared regions vary over the first MaxVaried slots; the later slots are
\* filled with one region
MaxVaried == 2

RegionArgs ==
    {NULL,
     memory_region(NULL_BASE, 1, "d", FALSE),
     memory_region(1, 0, "d", FALSE),
     memory_region(1, 1, "d", FALSE),
     memory_region(2, 1, NULL_FN, TRUE)}

FillerRegion == memory_region(1, 1, "d", FALSE)

\* sfpm_snapshot_add_region(descriptor, region), the descriptor pointer null or the
\* host's descriptor
DescriptorAdd(descriptor_null, region) ==
    /\ (snapshot.region_count >= MaxVaried /\ ~descriptor_null)
           => region \in {NULL, FillerRegion}
    /\ LET r == sfpm_snapshot_add_region(IF descriptor_null THEN NULL ELSE snapshot,
                                         region)
       IN  /\ snapshot' = IF descriptor_null THEN snapshot ELSE r.snapshot
           /\ last' = [op |-> "sfpm_snapshot_add_region", ret |-> r.ret,
                       snapshot |-> snapshot, descriptor_null |-> descriptor_null,
                       region |-> region]
    /\ UNCHANGED <<rules, facts, selected, rule, added, trace, tiered_vars,
                   memory, file, saved>>

NextDescriptor ==
    \/ SnapshotCreate
    \/ \E descriptor_null \in BOOLEAN : \E region \in RegionArgs :
           DescriptorAdd(descriptor_null, region)

SpecDescriptor == InitSnapshot /\ [][NextDescriptor]_vars

AddedRegion == last.op = "sfpm_snapshot_add_region"

\* one of the conditions under which the call must refuse
MustRefuse ==
    \/ last.descriptor_null
    \/ last.region = NULL
    \/ last.region.base_address = NULL_BASE
    \/ last.region.size = 0
    \/ last.snapshot.region_count >= MAX_REGIONS

\* the region as the descriptor stores it: a null name is stored as "unnamed"
Stored(region) ==
    [region EXCEPT !.name = IF @ = NULL_FN THEN "unnamed" ELSE @]

\* C15: sfpm_snapshot_add_region returns false and leaves the descriptor unchanged
\* when the descriptor or the region is null, the base address is null, the size is
\* zero or the descriptor already holds 64 regions; otherwise it returns true and
\* appends the region as the last one; the region count never exceeds 64 and the
\* regions keep insertion order.
C15_AddRegion ==
    /\ snapshot.region_count <= MAX_REGIONS
    /\ AddedRegion =>
          IF MustRefuse
          THEN ~last.ret /\ snapshot = last.snapshot
          ELSE /\ last.ret
               /\ snapshot.region_count = last.snapshot.region_count + 1
               /\ SubSeq(snapshot.regions, 1, last.snapshot.region_count)
                      = SubSeq(last.snapshot.regions, 1, last.snapshot.region_count)
               /\ snapshot.regions[snapshot.region_count] = Stored(last.region)

\* a descriptor holding 64 regions, the first two of them different, refused a
\* well-formed region
C15_Witness ==
    /\ AddedRegion
    /\ ~last.descriptor_null
    /\ last.region = FillerRegion
    /\ last.snapshot.region_count = MAX_REGIONS
    /\ snapshot.regions[1].name = "unnamed"
    /\ snapshot.regions[2].name = "d"
    /\ ~last.ret

(***************************************************************************)
(* Rule evaluation alone: one rule, a fact source the host fills, and      *)
(* calls of sfpm_rule_evaluate.                                            *)
(***************************************************************************)
MaxCriteria == 2

\* the entries a criteria array may hold; a null pointer is one of them
CriteriaEntries ==
    {sfpm_criteria_create("a", "SFPM_OP_EQUAL", sfpm_value_from_int(1)),
     sfpm_criteria_create("a", "SFPM_OP_GREATER_THAN_OR_EQUAL", sfpm_value_from_int(1)),
     sfpm_criteria_create("b", "SFPM_OP_EQUAL", sfpm_value_from_int(2)),
     NULL}

CriteriaArrays ==
    UNION {[1 .. n -> CriteriaEntries] : n \in 0 .. MaxCriteria}

InitEvaluate ==
    /\ rule \in {sfpm_rule_create(c, "payload_a", NULL_FN, "rule") : c \in CriteriaArrays}
    /\ rules = << >>
    /\ facts = sfpm_dict_fact_source_create(5)
    /\ selected = NULL
    /\ added = NoneAdded
    /\ trace = << >>
    /\ last = NoCall
    /\ interp = NULL
    /\ heap = NULL
    /\ vm = NULL
    /\ exit_status = "running"
    /\ handlers = NULL
    /\ snapshot = NULL
    /\ memory = NULL
    /\ file = NULL
    /\ saved = NULL

RuleEvaluate ==
    /\ last' = [op |-> "sfpm_rule_evaluate", result |-> sfpm_rule_evaluate(rule, facts)]
    /\ UNCHANGED <<rules, facts, selected, rule, added, trace, tiered_vars,
                   snapshot_vars>>

NextEvaluate ==
    \/ \E kv \in FactAdds : FactAdd(kv[1], kv[2])
    \/ RuleEvaluate

SpecEvaluate == InitEvaluate /\ [][NextEvaluate]_vars

Evaluated == last.op = "sfpm_rule_evaluate"

\* every criterion the rule holds (null entries of the array are not criteria)
\* evaluates true against the facts
EveryCriterionTrue ==
    \A i \in 1 .. Len(rule.criterias) :
        rule.criterias[i] # NULL => sfpm_criteria_evaluate(rule.criterias[i], facts)

\* C16: sfpm_rule_evaluate is a conjunction: it returns {true, criteria count of the
\* rule} exactly when every criterion of the rule evaluates true against the facts and
\* {false, 0} when one fails, for example because its fact is missing; a rule with
\* zero criteria returns {true, 0}.
C16_EvaluateConjunction ==
    Evaluated =>
        /\ last.result =
              IF EveryCriterionTrue
              THEN [matched |-> TRUE,
                    criteria_count |-> sfpm_rule_get_criteria_count(rule)]
              ELSE [matched |-> FALSE, criteria_count |-> 0]
        /\ Len(rule.criterias) = 0
              => last.result = [matched |-> TRUE, criteria_count |-> 0]

\* a rule asking for a = 1 and b = 2 was evaluated against facts that hold a = 1 and
\* no b
C16_Witness ==
    /\ Evaluated
    /\ Len(rule.criterias) = 2
    /\ rule.criterias[1] # NULL
    /\ rule.criterias[2] # NULL
    /\ sfpm_criteria_evaluate(rule.criterias[1], facts)
    /\ rule.criterias[2].fact_name = "b"
    /\ ~sfpm_fact_source_try_get(facts, "b").found
    /\ last.result = [matched |-> FALSE, criteria_count |-> 0]

(***************************************************************************)
(* Unknown opcodes                                                         *)
(***************************************************************************)
\* instruction k of the program that ran has an opcode with no rule
UnknownAt(k) == last.program[k].op \notin RegisteredOpcodes(last.interp)

RemoveAt(program, k) ==
    SubSeq(program, 1, k - 1) \o SubSeq(program, k + 1, Len(program))

RunsFrom(program) ==
    tiered_run_program([interp |-> last.interp, heap |-> heap], vm_init, program)

\* C17: an instruction whose opcode has no registered rule is fatal in cached mode (no
\* handler runs for it and nothing after it is executed) and a silent no-op in
\* uncached mode (no handler runs for it, stack and halted are unchanged, and
\* execution goes on with the next instruction).
C17_UnknownOpcode ==
    Ran =>
        \A k \in 1 .. vm.pc :
            UnknownAt(k) =>
                IF last.interp.mode = "MODE_CACHED"
                THEN /\ exit_status = "Unknown opcode in cached mode"
                     /\ vm.pc = k
                     /\ \E r \in RunsFrom(SubSeq(last.program, 1, k - 1)) :
                           /\ r.calls = trace
                           /\ r.vm.stack = vm.stack
                           /\ r.vm.halted = vm.halted
                ELSE \E r \in RunsFrom(RemoveAt(last.program, k)) :
                        /\ r.calls = trace
                        /\ r.vm.stack = vm.stack
                        /\ r.vm.halted = vm.halted
                        /\ r.exit = exit_status
                        /\ r.vm.pc + 1 = vm.pc

\* in cached mode the program PUSH 1, ADD, PUSH 2 ran with ADD unregistered: op_push
\* ran once and the process ended at ADD
C17_Witness ==
    /\ Ran
    /\ last.interp.mode = "MODE_CACHED"
    /\ last.program = <<instruction(OP_PUSH, 1), instruction(OP_ADD, 0),
                        instruction(OP_PUSH, 2)>>
    /\ UnknownAt(2)
    /\ HandlerCalls(trace) = <<handler_call("op_push", 1)>>
    /\ vm.stack = <<1>>
    /\ vm.pc = 2
    /\ exit_status = "Unknown opcode in cached mode"

\* the same program ran in uncached mode: ADD was skipped and both PUSH ran
C17_WitnessUncached ==
    /\ Ran
    /\ last.interp.mode = "MODE_UNCACHED"
    /\ last.program = <<instruction(OP_PUSH, 1), instruction(OP_ADD, 0),
                        instruction(OP_PUSH, 2)>>
    /\ UnknownAt(2)
    /\ HandlerCalls(trace) = <<handler_call("op_push", 1), handler_call("op_push", 2)>>
    /\ vm.stack = <<1, 2>>
    /\ vm.pc = 3
    /\ exit_status = "running"

(***************************************************************************)
(* The two mode switches                                                   *)
(***************************************************************************)
\* C18: tiered_enter_cached_mode called in uncached mode sets the mode to cached and
\* adds one to cache_version, leaving every other field; called in cached mode it
\* changes nothing; so calling it twice in a row has the effect of calling it once.
C18_EnterCachedMode ==
    /\ [](tiered_enter_cached_mode(tiered_enter_cached_mode(interp))
              = tiered_enter_cached_mode(interp))
    /\ [][last'.op = "tiered_enter_cached_mode" =>
              /\ heap' = heap
              /\ IF interp.mode = "MODE_UNCACHED"
                 THEN interp' = [interp EXCEPT !.mode = "MODE_CACHED",
                                               !.cache_version = interp.cache_version + 1]
                 ELSE interp' = interp]_vars

\* with an opcode registered, the call was made in cached mode after an earlier call
\* had switched the mode: the version is the one the earlier call set
C18_Witness ==
    /\ last.op = "tiered_enter_cached_mode"
    /\ last.mode = "MODE_CACHED"
    /\ interp.mode = "MODE_CACHED"
    /\ interp.cache_version = 2
    /\ interp.all_rules_count = 1

\* C19: tiered_enter_uncached_mode called in cached mode sets the mode to uncached and
\* adds one to cache_invalidations, leaving rule_cache, the flat array and every other
\* field; called in uncached mode it changes nothing; so calling it twice in a row has
\* the effect of calling it once.
C19_EnterUncachedMode ==
    /\ [](tiered_enter_uncached_mode(tiered_enter_uncached_mode(interp))
              = tiered_enter_uncached_mode(interp))
    /\ [][last'.op = "tiered_enter_uncached_mode" =>
              /\ heap' = heap
              /\ IF interp.mode = "MODE_CACHED"
                 THEN interp' = [interp EXCEPT
                                    !.mode = "MODE_UNCACHED",
                                    !.cache_invalidations = interp.cache_invalidations + 1]
                 ELSE interp' = interp]_vars

\* with two opcodes registered, the call was made in cached mode: the mode is
\* uncached, one more invalidation is counted and both rules are still in the tables
C19_Witness ==
    /\ last.op = "tiered_enter_uncached_mode"
    /\ last.mode = "MODE_CACHED"
    /\ interp.mode = "MODE_UNCACHED"
    /\ interp.cache_invalidations = last.cache_invalidations + 1
    /\ interp.all_rules_count = 2
    /\ Cardinality(RegisteredOpcodes(interp)) = 2

(***************************************************************************)
(* Clearing the hooks                                                      *)
(***************************************************************************)
Cleared == last.op = "sfpm_rule_clear_hooks"

NoHookCounted ==
    /\ count_hooks_in_chain(rule.before_hook_chain) = 0
    /\ count_hooks_in_chain(rule.middleware_hook_chain) = 0
    /\ count_hooks_in_chain(rule.after_hook_chain) = 0

\* a rule created like the host's rule that was given only the hooks added since the
\* latest clear
NeverCleared ==
    [sfpm_rule_create(rule.criterias, rule.payload, rule.payload_user_data, rule.name)
        EXCEPT !.before_hook_chain = added.before,
               !.middleware_hook_chain = added.middleware,
               !.after_hook_chain = added.after]

\* C20 as stated: after sfpm_rule_clear_hooks the three hook counts are 0 and a later
\* sfpm_rule_execute_payload runs the payload once and none of the hooks registered
\* before the clear; hooks added after the clear run normally.
C20_ClearHooks_Original ==
    /\ Cleared => (NoHookCounted /\ sfpm_rule_execute_payload(rule) = <<payload_call(rule)>>)
    /\ (Executed /\ added = NoneAdded) => trace = <<payload_call(rule)>>
    /\ Executed => trace = sfpm_rule_execute_payload(NeverCleared)

\* C20: after sfpm_rule_clear_hooks the three hook counts are 0 and a later
\* sfpm_rule_execute_payload calls none of the hooks registered before the clear and,
\* when the rule has a payload, runs the payload once; hooks added after the clear run
\* as they do on a rule that never held the cleared hooks.
C20_ClearHooks ==
    /\ Cleared =>
          /\ NoHookCounted
          /\ sfpm_rule_execute_payload(rule) =
                 IF rule.payload # NULL_FN THEN <<payload_call(rule)>> ELSE << >>
    /\ (Executed /\ added = NoneAdded) =>
          trace = IF rule.payload # NULL_FN THEN <<payload_call(rule)>> ELSE << >>
    /\ Executed => trace = sfpm_rule_execute_payload(NeverCleared)

\* a rule with a payload and a hook in each chain, the before hook one that returns
\* false, was cleared
C20_Witness ==
    /\ Cleared
    /\ rule.payload # NULL_FN
    /\ FnsOf(last.rule.before_hook_chain) = <<"hook_that_aborts">>
    /\ count_hooks_in_chain(last.rule.middleware_hook_chain) = 1
    /\ count_hooks_in_chain(last.rule.after_hook_chain) = 1
    /\ NoHookCounted
    /\ sfpm_rule_execute_payload(rule) = <<payload_call(rule)>>

\* after a clear, an after hook was added and the rule fired: the payload and the new
\* hook ran
C20_WitnessAddedAfter ==
    /\ Executed
    /\ added.before = << >>
    /\ added.middleware = << >>
    /\ Len(added.after) = 1
    /\ rule.payload # NULL_FN
    /\ Len(trace) = 2

(***************************************************************************)
(* Calls that fire nothing, null entries and null arguments                *)
(***************************************************************************)
WithoutNulls(arr) == SelectSeq(arr, LAMBDA r : r # NULL)

\* what a call fired: the rule it selected and the calls the firing made
FiringsOf(outcomes) == {[selected |-> o.selected, trace |-> o.trace] : o \in outcomes}

NothingFired == selected = NULL /\ trace = << >>

\* C21: when no rule of the array matches the facts sfpm_match fires nothing; null
\* entries of the array do not change which of the other rules may be selected; a null
\* rule array, a rule count of zero or a null fact source makes the call a no-op.
C21_NoMatchNoError ==
    /\ (MatchReturned /\ MatchedAt(last.rules, facts) = {}) => NothingFired
    /\ MatchReturned =>
          /\ FiringsOf(sfpm_match_outcomes(last.rules, facts, last.optimize))
                 = FiringsOf(sfpm_match_outcomes(WithoutNulls(last.rules), facts,
                                                 last.optimize))
          /\ [selected |-> selected, trace |-> trace]
                 \in FiringsOf(sfpm_match_outcomes(WithoutNulls(last.rules), facts,
                                                   last.optimize))
    /\ (MatchReturned /\ Len(last.rules) = 0) => (NothingFired /\ rules = last.rules)
    /\ last.op = "sfpm_match with a null argument"
          => (NothingFired /\ rules = last.rules)

\* the array began with a null entry and held two matching rules after it: the more
\* specific one fired
C21_Witness ==
    /\ MatchReturned
    /\ ~last.optimize
    /\ Len(last.rules) = 3
    /\ last.rules[1] = NULL
    /\ last.rules[2] = rule_a_high
    /\ {2, 3} \subseteq MatchedAt(last.rules, facts)
    /\ selected = rule_ab

\* the call was given a null fact source while a rule of its array matched the facts
\* the host holds: nothing fired and the array kept its order
C21_WitnessNullFacts ==
    /\ last.op = "sfpm_match with a null argument"
    /\ last.null_argument = "facts"
    /\ AcceptedAt(rules, facts) # {}
    /\ Len(rules) = 2
    /\ rules[1] = rule_a
    /\ rules[2] = rule_ab
    /\ NothingFired

(***************************************************************************)
(* Criteria and the dictionary alone: the host adds facts of every type    *)
(* to a dictionary and evaluates comparison criteria against it.           *)
(***************************************************************************)
ComparisonOperators ==
    {"SFPM_OP_EQUAL", "SFPM_OP_NOT_EQUAL", "SFPM_OP_GREATER_THAN", "SFPM_OP_LESS_THAN",
     "SFPM_OP_GREATER_THAN_OR_EQUAL", "SFPM_OP_LESS_THAN_OR_EQUAL"}

ValueTypes == {"int", "float", "double", "string", "bool"}

\* the values of one type the host uses: 41 and 42, 1.0 and NaN, "4" and "42", false
\* and true
ValuesOfType(t) ==
    CASE t = "int" -> {sfpm_value_from_int(41), sfpm_value_from_int(42)}
      [] t = "float" -> {sfpm_value_from_float([nan |-> FALSE, v |-> 1]),
                         sfpm_value_from_float([nan |-> TRUE, v |-> 0])}
      [] t = "double" -> {sfpm_value_from_double([nan |-> FALSE, v |-> 1]),
                          sfpm_value_from_double([nan |-> FALSE, v |-> 2])}
      [] t = "string" -> {sfpm_value_from_string(<<52>>),
                          sfpm_value_from_string(<<52, 50>>)}
      [] t = "bool" -> {sfpm_value_from_bool(FALSE), sfpm_value_from_bool(TRUE)}

\* the key "missing" is asked for and never added
FactKeys == {"value", "other", "missing"}

InitCriteria ==
    /\ facts \in {sfpm_dict_fact_source_create(capacity) : capacity \in {0, 1}}
    /\ rules = << >>
    /\ rule = NULL
    /\ selected = NULL
    /\ added = NoneAdded
    /\ trace = << >>
    /\ last = NoCall
    /\ interp = NULL
    /\ heap = NULL
    /\ vm = NULL
    /\ exit_status = "running"
    /\ handlers = NULL
    /\ snapshot = NULL
    /\ memory = NULL
    /\ file = NULL
    /\ saved = NULL

DictAdd(key, value) ==
    /\ facts' = sfpm_dict_fact_source_add(facts, key, value)
    /\ last' = [op |-> "sfpm_dict_fact_source_add", key |-> key, value |-> value]
    /\ UNCHANGED <<rules, selected, rule, added, trace, tiered_vars, snapshot_vars>>

CriteriaEvaluate(criteria) ==
    /\ last' = [op |-> "sfpm_criteria_evaluate", criteria |-> criteria,
                ret |-> sfpm_criteria_evaluate(criteria, facts)]
    /\ UNCHANGED <<rules, facts, selected, rule, added, trace, tiered_vars,
                   snapshot_vars>>

NextCriteria ==
    \/ \E t \in ValueTypes : \E value \in ValuesOfType(t) : DictAdd("value", value)
    \/ \E value \in ValuesOfType("int") : DictAdd("other", value)
    \/ \E fact_name \in {"value", "missing"} : \E op \in ComparisonOperators :
          \E t \in ValueTypes : \E expected_value \in ValuesOfType(t) :
              CriteriaEvaluate(sfpm_criteria_create(fact_name, op, expected_value))

SpecCriteria == InitCriteria /\ [][NextCriteria]_vars

CriteriaEvaluated == last.op = "sfpm_criteria_evaluate"

\* what the fact source holds under the name the evaluated criterion asks for
Got == sfpm_fact_source_try_get(facts, last.criteria.fact_name)

\* C22: a comparison criterion evaluates to false when the named fact is absent from
\* the fact source or when the type tag of the fact differs from the type tag of the
\* expected value, for every operator, not-equal included.
C22_TypeMismatchIsMiss ==
    CriteriaEvaluated =>
        ((~Got.found \/ Got.value.type # last.criteria.expected_value.type)
            => last.ret = FALSE)

\* the int fact 42 was compared not-equal with the string "42": false
C22_Witness ==
    /\ CriteriaEvaluated
    /\ Got.found
    /\ Got.value.type = "SFPM_TYPE_INT"
    /\ Got.value.data = 42
    /\ last.criteria.operator = "SFPM_OP_NOT_EQUAL"
    /\ last.criteria.expected_value.type = "SFPM_TYPE_STRING"
    /\ last.criteria.expected_value.data = <<52, 50>>
    /\ last.ret = FALSE

\* the value the evaluated criterion returns when its operator is op
Returns(op) == sfpm_criteria_evaluate([last.criteria EXCEPT !.operator = op], facts)

SameType == Got.found /\ Got.value.type = last.criteria.expected_value.type

\* C23: for a fact and an expected value of the same type the criterion returns the
\* truth of its operator on the three-way comparison of fact against expected: exactly
\* one of less, equal, greater holds, not-equal is the negation of equal, ge is greater
\* or equal, le is less or equal; integers compare by value, booleans with false < true.
C23_OperatorSemantics ==
    (CriteriaEvaluated /\ SameType) =>
        LET actual == Got.value.data
            expected == last.criteria.expected_value.data
            type == Got.value.type
        IN  /\ last.ret = Returns(last.criteria.operator)
            /\ Cardinality({op \in {"SFPM_OP_LESS_THAN", "SFPM_OP_EQUAL",
                                    "SFPM_OP_GREATER_THAN"} : Returns(op)}) = 1
            /\ Returns("SFPM_OP_NOT_EQUAL") = ~Returns("SFPM_OP_EQUAL")
            /\ Returns("SFPM_OP_GREATER_THAN_OR_EQUAL")
                   = (Returns("SFPM_OP_GREATER_THAN") \/ Returns("SFPM_OP_EQUAL"))
            /\ Returns("SFPM_OP_LESS_THAN_OR_EQUAL")
                   = (Returns("SFPM_OP_LESS_THAN") \/ Returns("SFPM_OP_EQUAL"))
            /\ type = "SFPM_TYPE_INT" =>
                  /\ Returns("SFPM_OP_LESS_THAN") = (actual < expected)
                  /\ Returns("SFPM_OP_EQUAL") = (actual = expected)
                  /\ Returns("SFPM_OP_GREATER_THAN") = (actual > expected)
            /\ type = "SFPM_TYPE_BOOL" =>
                  /\ Returns("SFPM_OP_LESS_THAN") = (~actual /\ expected)
                  /\ Returns("SFPM_OP_EQUAL") = (actual = expected)
                  /\ Returns("SFPM_OP_GREATER_THAN") = (actual /\ ~expected)

\* the bool fact false was compared less-than with true: true
C23_Witness ==
    /\ CriteriaEvaluated
    /\ SameType
    /\ Got.value.type = "SFPM_TYPE_BOOL"
    /\ Got.value.data = FALSE
    /\ last.criteria.expected_value.data = TRUE
    /\ last.criteria.operator = "SFPM_OP_LESS_THAN"
    /\ last.ret = TRUE

DictAdded == last.op = "sfpm_dict_fact_source_add"

\* the keys of the entries, by position
KeysOf(source) == [i \in 1 .. Len(source.entries) |-> source.entries[i].key]

\* C24: after every sfpm_dict_fact_source_add(k, v), try_get(k) returns v, whatever the
\* type of the value k held before, and try_get of every other key returns what it
\* returned before, so a key never added is not found; adding an existing key creates
\* no second entry; every earlier entry keeps its position, also when the add grows
\* the array beyond its initial capacity.
C24_AddOrReplace ==
    /\ [](/\ Len(facts.entries) = 0 =>
                \A k \in FactKeys : ~sfpm_fact_source_try_get(facts, k).found
          /\ ~sfpm_fact_source_try_get(facts, "missing").found
          /\ \A i, j \in 1 .. Len(facts.entries) :
                facts.entries[i].key = facts.entries[j].key => i = j)
    /\ [][last'.op = "sfpm_dict_fact_source_add" =>
              /\ sfpm_fact_source_try_get(facts', last'.key).found
              /\ sfpm_fact_source_try_get(facts', last'.key).value.type = last'.value.type
              /\ sfpm_fact_source_try_get(facts', last'.key).value.data = last'.value.data
              /\ \A k \in FactKeys \ {last'.key} :
                    /\ sfpm_fact_source_try_get(facts', k).found
                           = sfpm_fact_source_try_get(facts, k).found
                    /\ sfpm_fact_source_try_get(facts, k).found =>
                           sfpm_fact_source_try_get(facts', k).value
                               = sfpm_fact_source_try_get(facts, k).value
              /\ Len(facts'.entries) =
                     IF sfpm_fact_source_try_get(facts, last'.key).found
                     THEN Len(facts.entries)
                     ELSE Len(facts.entries) + 1
              /\ SubSeq(KeysOf(facts'), 1, Len(facts.entries)) = KeysOf(facts)]_vars

\* a dictionary created with capacity 1 holds two entries: the first one, whose value
\* was replaced by one of another type, kept its place when the second key was added
C24_Witness ==
    /\ DictAdded
    /\ last.key = "other"
    /\ facts.capacity = 2
    /\ KeysOf(facts) = <<"value", "other">>
    /\ facts.entries[1].value.type = "SFPM_TYPE_STRING"
    /\ sfpm_fact_source_try_get(facts, "value").found

(***************************************************************************)
(* The hook-chaining interpreter (examples/interpreter_hook_chaining.c):   *)
(* every instruction is dispatched by sfpm_match over one rule per opcode; *)
(* demo_early_abortion attaches abort_after_3_hook to every rule.          *)
(* In this machine vm is the example's vm_t with its program, rules is     *)
(* interp.rules, heap is the static storage (abort_counter) and trace the  *)
(* hook and payload calls of the run so far.                               *)
(***************************************************************************)
\* opcode_t of the example
chain_opcode == [OP_PUSH |-> 1, OP_ADD |-> 2, OP_MUL |-> 3, OP_PRINT |-> 4, OP_HALT |-> 5]

\* vm_init(&vm, program, size): the stack is stack[0 .. sp], so sp is Len(stack) - 1;
\* the security fields are read by no hook of demo_early_abortion
chain_vm_init(program) ==
    [stack |-> << >>, pc |-> 0, program |-> program, program_size |-> Len(program),
     halted |-> FALSE]

\* vm_push stores nothing on a full stack, vm_pop returns 0 on an empty one
chain_vm_push(v, value) ==
    IF Len(v.stack) - 1 < 255 THEN [v EXCEPT !.stack = Append(@, value)] ELSE v

chain_vm_pop(v) ==
    IF Len(v.stack) - 1 >= 0
    THEN [vm |-> [v EXCEPT !.stack = SubSeq(@, 1, Len(@) - 1)],
          value |-> v.stack[Len(v.stack)]]
    ELSE [vm |-> v, value |-> 0]

\* the payloads op_push, op_add, op_mul, op_print, op_halt on the context {vm, operand}
chain_payload(fn, v, operand) ==
    LET b == chain_vm_pop(v)
        a == chain_vm_pop(b.vm)
    IN  CASE fn = "op_push" -> chain_vm_push(v, operand)
          [] fn = "op_add" -> chain_vm_push(a.vm, a.value + b.value)
          [] fn = "op_mul" -> chain_vm_push(a.vm, a.value * b.value)
          [] fn = "op_print" -> v
          [] fn = "op_halt" -> [v EXCEPT !.halted = TRUE]

\* abort_after_3_hook returning false from its fifth call on
abort_after_4_hook(abort_counter) ==
    [abort_counter |-> abort_counter + 1, ret |-> ~(abort_counter + 1 >= 5)]

\* one call of the hook: the counter after it and the value returned
abort_after_3_hook(abort_counter) ==
    [abort_counter |-> abort_counter + 1, ret |-> ~(abort_counter + 1 >= 4)]

interpreter_register_opcode(opcode, handler) ==
    sfpm_rule_create(
        <<sfpm_criteria_create("opcode", "SFPM_OP_EQUAL", sfpm_value_from_int(opcode))>>,
        handler, opcode, "opcode")

\* interp.rules as demo_early_abortion builds it; the node of the hook carries the
\* value the hook returns at its next call, which depends on abort_counter
early_abortion_rules(abort_counter) ==
    [i \in 1 .. 5 |->
        sfpm_rule_add_before_hook(
            interpreter_register_opcode(
                i, <<"op_push", "op_add", "op_mul", "op_print", "op_halt">>[i]),
            hook_node("abort_after_3_hook", abort_after_3_hook(abort_counter).ret))]

\* the program of demo_early_abortion
early_abortion_program ==
    <<chain_opcode.OP_PUSH, 1, chain_opcode.OP_PUSH, 2, chain_opcode.OP_ADD,
      chain_opcode.OP_PUSH, 3, chain_opcode.OP_MUL, chain_opcode.OP_PRINT,
      chain_opcode.OP_HALT>>

MaxProgram == 4

\* the programs run: that of the demo and every byte string of up to MaxProgram opcodes
ChainPrograms ==
    {early_abortion_program}
        \cup UNION {[1 .. n -> 1 .. 5] : n \in 1 .. MaxProgram}

InitChain ==
    /\ \E program \in ChainPrograms : vm = chain_vm_init(program)
    /\ heap = [abort_counter |-> 0]
    /\ rules = early_abortion_rules(0)
    /\ facts = NULL
    /\ trace = << >>
    /\ last = NoCall
    /\ selected = NULL
    /\ rule = NULL
    /\ added = NoneAdded
    /\ interp = NULL
    /\ exit_status = "running"
    /\ handlers = NULL
    /\ snapshot = NULL
    /\ memory = NULL
    /\ file = NULL
    /\ saved = NULL

\* one iteration of the while loop of interpreter_run: fetch, facts, sfpm_match
InterpreterStep ==
    /\ vm.pc < vm.program_size /\ ~vm.halted
    /\ LET opcode == vm.program[vm.pc + 1]
           has_operand == opcode = chain_opcode.OP_PUSH /\ vm.pc + 1 < vm.program_size
           operand == IF has_operand THEN vm.program[vm.pc + 2] ELSE 0
           fetched == [vm EXCEPT !.pc = IF has_operand THEN @ + 2 ELSE @ + 1]
           source == sfpm_dict_fact_source_add(sfpm_dict_fact_source_create(1),
                                               "opcode", sfpm_value_from_int(opcode))
       IN  \E o \in sfpm_match_outcomes(rules, source, FALSE) :
              LET hooks == SelectSeq(o.trace, LAMBDA c : c.kind = "before")
                  payloads == SelectSeq(o.trace, LAMBDA c : c.kind = "payload")
                  counter == heap.abort_counter + Len(hooks)
              IN  /\ heap' = [heap EXCEPT !.abort_counter = counter]
                  /\ rules' = early_abortion_rules(counter)
                  /\ vm' = IF Len(payloads) = 0 THEN fetched
                           ELSE chain_payload(payloads[1].fn, fetched, operand)
                  /\ selected' = o.selected
                  /\ trace' = trace \o o.trace
                  /\ facts' = source
                  /\ last' = [op |-> "interpreter_run", opcode |-> opcode,
                              operand |-> operand, vm |-> vm]
    /\ UNCHANGED <<rule, added, interp, exit_status, handlers, snapshot_vars>>

NextChain == InterpreterStep

SpecChain == InitChain /\ [][NextChain]_vars

(***************************************************************************)
(* Properties of the specificity helpers                                   *)
(***************************************************************************)
MostCalled == last.op = "sfpm_most_specific_rule"

LeastCalled == last.op = "sfpm_least_specific_rule"

CountsOf(arr) == {sfpm_rule_get_criteria_count(arr[i]) : i \in 1 .. Len(arr)}

Greatest(S) == CHOOSE m \in S : \A x \in S : x <= m

Smallest(S) == CHOOSE m \in S : \A x \in S : m <= x

\* the lowest index of arr whose entry has c criteria
FirstWith(arr, c) ==
    CHOOSE i \in 1 .. Len(arr) :
        /\ sfpm_rule_get_criteria_count(arr[i]) = c
        /\ \A j \in 1 .. (i - 1) : sfpm_rule_get_criteria_count(arr[j]) # c

OnArray == ~last.rules_null /\ Len(rules) > 0

C25_WitnessNullEntry ==
    /\ LeastCalled
    /\ rules = <<rule_a, NULL>>
    /\ last.ret = NULL
    /\ ~last.rules_null

(***************************************************************************)
(* Properties of sfpm_optimize_rules                                       *)
(***************************************************************************)
Optimized == last.op = "sfpm_optimize_rules"

NonIncreasing(arr) ==
    \A i \in 1 .. (Len(arr) - 1) :
        sfpm_rule_get_criteria_count(arr[i]) >= sfpm_rule_get_criteria_count(arr[i + 1])

\* how many entries of arr are the entry e
Occurrences(arr, e) == Cardinality({i \in 1 .. Len(arr) : arr[i] = e})

PermutationOf(a, b) ==
    /\ Len(a) = Len(b)
    /\ \A i \in 1 .. Len(a) : Occurrences(a, a[i]) = Occurrences(b, a[i])

\* C26: after sfpm_optimize_rules the criteria counts of the array do not increase
\* from index 0 upwards, and the array holds the entries it held before, each as often
\* as before; this holds for every order the sort may leave.
C26_OptimizeSorts ==
    /\ Optimized => (NonIncreasing(rules) /\ PermutationOf(rules, last.rules))
    /\ \A a \in sfpm_optimize_rules(rules) : NonIncreasing(a) /\ PermutationOf(a, rules)

\* the array of test_optimization's shape: counts 1, 2, 0 before, 2, 1, 0 after
C26_Witness ==
    /\ Optimized
    /\ last.rules = <<rule_a, rule_ab, rule_no_criteria>>
    /\ rules = <<rule_ab, rule_a, rule_no_criteria>>

(***************************************************************************)
(* The early exit of the optimizing match                                  *)
(***************************************************************************)
\* C30: for every rule array and fact source, the rules sfpm_match may fire with
\* optimize=true, each with the calls its firing makes, are those it may fire with
\* optimize=false; the call without optimize leaves the array as it was and the call
\* with optimize leaves a reordering of it.
C30_EarlyExitSameOutcome ==
    /\ LET sorted == sfpm_match_outcomes(rules, facts, TRUE)
           plain == sfpm_match_outcomes(rules, facts, FALSE)
       IN  /\ FiringsOf(sorted) = FiringsOf(plain)
           /\ \A o \in plain : o.rules = rules
           /\ \A o \in sorted : PermutationOf(o.rules, rules) /\ NonIncreasing(o.rules)
    /\ MatchReturned =>
           [selected |-> selected, trace |-> trace]
               \in FiringsOf(sfpm_match_outcomes(last.rules, facts, ~last.optimize))

\* an optimizing match sorted rule_ab in front of rule_a, fired rule_ab and left the
\* loop at rule_a, which matches the facts too
C30_Witness ==
    /\ MatchReturned
    /\ last.optimize
    /\ last.rules = <<rule_a, rule_ab>>
    /\ rules = <<rule_ab, rule_a>>
    /\ selected = rule_ab
    /\ sfpm_rule_evaluate(rule_a, facts).matched

(***************************************************************************)
(* Properties of sfpm_snapshot_read_metadata                               *)
(***************************************************************************)
MetadataRead == last.op = "sfpm_snapshot_read_metadata"

\* the file is the saved file cut short somewhere
Truncated ==
    /\ saved # NULL
    /\ file.exists
    /\ Len(file.items) < Len(saved.file.items)
    /\ file.items = SubSeq(saved.file.items, 1, Len(file.items))

\* the file is the saved file up to the end of its metadata block at least
HeaderAsSaved ==
    /\ saved # NULL
    /\ file.exists
    /\ Len(file.items) >= 2
    /\ file.items = SubSeq(saved.file.items, 1, Len(file.items))

LacksMagic ==
    file.exists /\ (Len(file.items) = 0 \/ file.items[1].v # SFPM_SNAPSHOT_MAGIC)

\* the metadata read are those of the saved descriptor
MetadataAsSaved ==
    /\ last.ret = TRUE
    /\ last.metadata.version = 1
    /\ last.metadata.num_regions = Len(saved.contents)
    /\ last.metadata.total_size
           = sum_sizes([i \in 1 .. Len(saved.contents) |->
                           [size |-> Len(saved.contents[i])]], Len(saved.contents))
    /\ last.metadata.description = saved.description

\* C27 as stated: read_metadata of the saved file returns true with version 1, the
\* region count, the sum of the region sizes and the description of the descriptor;
\* it returns false when the file does not open, lacks the magic or is truncated; it
\* leaves memory alone.
C27_ReadMetadata_Original ==
    /\ (MetadataRead /\ FileAsSaved /\ ~last.metadata_null) => MetadataAsSaved
    /\ (MetadataRead /\ (~file.exists \/ LacksMagic \/ Truncated)) => last.ret = FALSE
    /\ MetadataRead => memory = last.memory

\* C27: read_metadata of the saved file returns true with version 1, num_regions the
\* region count of the saved descriptor, total_size the sum of its region sizes and
\* its description, which is the text last set with sfpm_snapshot_set_description (the
\* first 255 characters of it, "SFPM Snapshot" when none was set); it returns false when
\* the file does not open, lacks the magic or ends before the end of its metadata
\* block, and true with the saved metadata when the file is cut short later than that;
\* it leaves memory alone.
C27_ReadMetadata ==
    /\ [](/\ (MetadataRead /\ HeaderAsSaved /\ ~last.metadata_null) => MetadataAsSaved
          /\ (MetadataRead /\ (~file.exists \/ LacksMagic \/ Len(file.items) < 2))
                 => last.ret = FALSE
          /\ MetadataRead => memory = last.memory)
    /\ [][/\ last'.op = "sfpm_snapshot_set_description" =>
                 IF last'.description = NULL
                 THEN snapshot'.description = snapshot.description
                 ELSE /\ snapshot'.description.text = last'.description.text
                      /\ snapshot'.description.len
                             = IF last'.description.len < 255
                               THEN last'.description.len ELSE 255
          /\ (last'.op # "sfpm_snapshot_set_description"
              /\ snapshot'.description # snapshot.description) =>
                 /\ snapshot'.region_count = 0
                 /\ snapshot'.description = c_string("SFPM Snapshot", 13)]_vars

\* the descriptor of test_read_metadata: one region, the description set, saved, read
C27_Witness ==
    /\ MetadataRead
    /\ FileAsSaved
    /\ last.ret = TRUE
    /\ last.metadata.num_regions = 1
    /\ last.metadata.total_size = 2
    /\ last.metadata.description = c_string("Metadata test snapshot", 22)

\* the metadata of a file cut short in its region records were read
C27_WitnessCutInRegions ==
    /\ MetadataRead
    /\ Truncated
    /\ Len(file.items) > 2
    /\ last.ret = TRUE

\* a description longer than the buffer was set, saved, and read back cut to 255
C27_WitnessLongDescription ==
    /\ MetadataRead
    /\ FileAsSaved
    /\ last.ret = TRUE
    /\ last.metadata.description = c_string("long", 255)

(***************************************************************************)
(* The mode and the counters of the tiered dispatcher                      *)
(***************************************************************************)
StartsCached ==
    /\ interp.mode = "MODE_CACHED"
    /\ interp.cache_version = 1
    /\ interp.cache_invalidations = 0
    /\ \A o \in Opcodes : interp.rule_cache[o] = NULL_ADDR
    /\ interp.all_rules_count = 0

ModeMatchesCounters ==
    /\ interp.mode \in {"MODE_CACHED", "MODE_UNCACHED"}
    /\ interp.mode = "MODE_CACHED"
           <=> interp.cache_version - 1 = interp.cache_invalidations
    /\ interp.mode = "MODE_UNCACHED"
           <=> interp.cache_version = interp.cache_invalidations

\* C29: the dispatcher starts in cached mode with cache_version 1, cache_invalidations
\* 0 and empty tables; whatever the host does (register, update, unregister, the two
\* mode switches, dispatch), neither counter ever decreases, the mode is cached
\* exactly when cache_version - 1 = cache_invalidations and uncached exactly when
\* cache_version = cache_invalidations, and a register or unregister made in uncached
\* mode changes neither counter.
C29_ModeCounters ==
    /\ StartsCached
    /\ []ModeMatchesCounters
    /\ [][/\ interp'.cache_version >= interp.cache_version
          /\ interp'.cache_invalidations >= interp.cache_invalidations
          /\ (/\ last'.op \in {"tiered_register_opcode", "tiered_unregister_opcode"}
              /\ interp.mode = "MODE_UNCACHED") =>
                 /\ interp'.cache_version = interp.cache_version
                 /\ interp'.cache_invalidations = interp.cache_invalidations]_vars

\* after a dispatch in uncached mode and a return to cached mode a second invalidation
\* happened, and an opcode was unregistered in uncached mode
C29_Witness ==
    /\ last.op = "tiered_unregister_opcode"
    /\ last.mode = "MODE_UNCACHED"
    /\ interp.cache_version = 2
    /\ interp.cache_invalidations = 2
    /\ interp.uncached_dispatches > 0

(***************************************************************************)
(* Early abortion in the hook-chaining interpreter                         *)
(***************************************************************************)
PayloadsRun == SelectSeq(trace, LAMBDA c : c.kind = "payload")

Stepped == last.op = "interpreter_run"

\* the hook returned false in the latest iteration
Suppressed == Stepped /\ heap.abort_counter >= 4

DemoFinished ==
    /\ vm.program = early_abortion_program
    /\ vm.pc >= vm.program_size

\* the payloads of PUSH 1, PUSH 2 and ADD ran, and no other: 3 is on the stack
ThreePayloads ==
    /\ [i \in 1 .. Len(PayloadsRun) |-> PayloadsRun[i].fn] = <<"op_push", "op_push", "op_add">>
    /\ vm.stack = <<3>>
    /\ ~vm.halted
    /\ heap.abort_counter = 7

OnlyZeroCriteria(arr) ==
    \A i \in 1 .. Len(arr) : sfpm_rule_get_criteria_count(arr[i]) = 0

\* C31: sfpm_match never fires a rule of zero criteria, although sfpm_rule_evaluate
\* reports such a rule as matched with criteria count 0; a call on an array that holds
\* only rules of zero criteria fires nothing.
C31_ZeroCriteriaNeverFired ==
    /\ \A i \in 1 .. Len(rules) :
          (rules[i] # NULL /\ Len(rules[i].criterias) = 0) =>
              sfpm_rule_evaluate(rules[i], facts) = [matched |-> TRUE, criteria_count |-> 0]
    /\ \A optimize \in BOOLEAN :
          \A o \in sfpm_match_outcomes(rules, facts, optimize) :
              /\ o.selected # NULL => Len(o.selected.criterias) > 0
              /\ OnlyZeroCriteria(rules) => (o.selected = NULL /\ o.trace = << >>)
    /\ Fired => Len(selected.criterias) > 0
    /\ (MatchReturned /\ OnlyZeroCriteria(last.rules)) => NothingFired

\* a match was called on an array of two rules without criteria and fired nothing
C31_Witness ==
    /\ MatchReturned
    /\ last.rules = <<rule_no_criteria, rule_no_criteria>>
    /\ sfpm_rule_evaluate(rule_no_criteria, facts).matched
    /\ NothingFired

(***************************************************************************)
(* Firing a rule that has no payload                                       *)
(***************************************************************************)
\* the calls of a firing that walks the three chains and leaves out only the call of
\* the payload
HooksWithoutPayload(r) ==
    LET b == walk_abortable_chain("before", r.before_hook_chain, 1)
        m == walk_abortable_chain("middleware", r.middleware_hook_chain, 1)
    IN  IF b.aborted THEN b.calls
        ELSE IF m.aborted THEN b.calls \o m.calls
        ELSE b.calls \o m.calls \o walk_after_chain(r.after_hook_chain, 1)

\* C32: for a rule whose payload is null, sfpm_rule_execute_payload walks the before
\* chain and then the middleware chain in insertion order, stopping at a hook that
\* returns false, leaves out only the call of the payload, and then walks the after
\* chain.
C32_NullPayloadWalksHooks ==
    (Executed /\ rule.payload = NULL_FN) => trace = HooksWithoutPayload(rule)

\* what the code does instead: the firing of a rule without payload makes no call
C32_NullPayloadRunsNothing ==
    (Executed /\ rule.payload = NULL_FN) => trace = << >>

\* a rule without payload that holds a hook in each chain, none returning false, was
\* fired and no hook was called
C32_Witness ==
    /\ Executed
    /\ rule.payload = NULL_FN
    /\ Len(rule.before_hook_chain) > 0
    /\ Len(rule.middleware_hook_chain) > 0
    /\ Len(rule.after_hook_chain) > 0
    /\ \A i \in 1 .. Len(rule.before_hook_chain) : rule.before_hook_chain[i].ret
    /\ trace = << >>

(***************************************************************************)
(* Destroyed rules and the tables                                          *)
(***************************************************************************)
\* the rule pointers the dispatcher can follow: rule_cache and all_rules[0 .. count)
Reachable(it) ==
    {it.rule_cache[o] : o \in Opcodes} \cup
    {it.all_rules[i] : i \in 1 .. it.all_rules_count}

\* C33: the rule a register_opcode or update_opcode call destroys (the one installed
\* for the opcode before the call) is, from its destruction on, referenced neither by
\* rule_cache nor by a slot of the flat array, the rule an unregister_opcode call
\* destroys is not in the flat array, and after the call not in rule_cache either; at
\* all times every pointer a dispatch can follow leads to a live rule.
C33_NoDestroyedRuleReachable ==
    /\ [](\A a \in Reachable(interp) \ {NULL_ADDR} : heap[a] # NULL)
    /\ [][(/\ last'.op \in {"tiered_register_opcode", "tiered_update_opcode",
                             "tiered_unregister_opcode"}
           /\ interp.rule_cache[last'.opcode] # NULL_ADDR) =>
              /\ heap'[interp.rule_cache[last'.opcode]] = NULL
              /\ interp.rule_cache[last'.opcode] \notin Reachable(interp')]_vars

\* an opcode that had a rule was registered again: the block of the old rule is free
\* and the flat array holds the new rule in the old one's slot
C33_Witness ==
    /\ last.op = "tiered_register_opcode"
    /\ last.registered
    /\ interp.all_rules_count = 2
    /\ interp.rule_cache[last.opcode] = interp.all_rules[1]
    /\ Cardinality(FreeAddrs(heap)) = MaxAddr - 2


(***************************************************************************)
(* Nested dispatch: code of a firing dispatches on the same dispatcher     *)
(***************************************************************************)
DispatchSites == {"hook", "payload"}

NestedDispatch(instr, nested, site) ==
    /\ exit_status = "running"
    /\ interp.rule_cache[instr.op] # NULL_ADDR
    /\ interp.cached_dispatches + interp.uncached_dispatches + 2 <= MaxDispatches
    /\ \E r \in reentrant_execute_instruction([interp |-> interp, heap |-> heap],
                                              vm, instr, nested, site) :
          /\ interp' = r.interp
          /\ vm' = r.vm
          /\ trace' = r.calls
          /\ exit_status' = r.exit
    /\ last' = [op |-> "nested_dispatch", instr |-> instr, nested |-> nested,
                site |-> site, interp |-> interp]
    /\ UNCHANGED <<rules, facts, selected, rule, added, heap, handlers, snapshot_vars>>

NextNested ==
    \/ \E opcode \in Opcodes : \E handler \in Handlers(opcode) :
          RegisterFirstFree(opcode, handler)
    \/ EnterCachedMode
    \/ EnterUncachedMode
    \/ \E instr \in Instructions : \E nested \in Instructions : \E site \in DispatchSites :
          NestedDispatch(instr, nested, site)

SpecNested == InitTiered /\ [][NextNested]_vars

\* a dispatch with a nested dispatch inside has returned
NestedReturned == last.op = "nested_dispatch" /\ exit_status = "running"

\* the operand of the last handler call: the one of the outer firing
OuterOperand == trace[Len(trace)].operand

C34_WitnessPayload ==
    /\ NestedReturned
    /\ last.site = "payload"
    /\ last.instr = instruction(OP_PUSH, 1)
    /\ last.nested = instruction(OP_PUSH, 2)
    /\ vm.stack = <<2, 1>>
    /\ interp.contexts[OP_PUSH].operand = 2

\* PUSH 1 was dispatched with a nested HALT: the slot of PUSH kept 1
C34_WitnessOtherOpcode ==
    /\ NestedReturned
    /\ last.instr = instruction(OP_PUSH, 1)
    /\ last.nested.op = OP_HALT
    /\ vm.stack = <<1>>
    /\ vm.halted


(***************************************************************************)
(* Dispatch accounting                                                     *)
(***************************************************************************)
\* the counter of the mode the dispatcher is in
mode_counter(it) ==
    IF it.mode = "MODE_CACHED" THEN "cached_dispatches" ELSE "uncached_dispatches"

\* the tiered_execute_instruction calls of the run that returned: every fetch advanced
\* pc by one, and a run the process left did not return from its last call
CompletedDispatches(v, status) == IF status = "running" THEN v.pc ELSE v.pc - 1

\* C35: a run adds the number of its tiered_execute_instruction calls that returned to
\* the counter of the mode it ran in (one per call, hook-aborted firings and uncached
\* dispatches that matched no rule included) and leaves the other counter, the mode,
\* cache_version, cache_invalidations, rule_cache, the flat array, the handlers of the
\* contexts and the rules as they were; both counters start at zero, so their sum is
\* the number of completed dispatches.
C35_DispatchAccounting ==
    /\ interp.cached_dispatches + interp.uncached_dispatches = 0
    /\ [][last'.op = "tiered_run_program" =>
            LET counter == mode_counter(interp)
                completed == CompletedDispatches(vm', exit_status')
            IN  /\ interp'[counter] = interp[counter] + completed
                /\ [interp' EXCEPT ![counter] = interp[counter],
                                   !.contexts = interp.contexts] = interp
                /\ \A o \in Opcodes :
                      interp'.contexts[o].handler = interp.contexts[o].handler
                /\ heap' = heap]_vars

\* a cached run of PUSH 1, PUSH 2 with a before hook that returns false on the PUSH
\* rule: two hook calls, no handler call, two dispatches counted
C35_Witness ==
    /\ Ran
    /\ exit_status = "running"
    /\ last.interp.mode = "MODE_CACHED"
    /\ last.program = <<instruction(OP_PUSH, 1), instruction(OP_PUSH, 2)>>
    /\ Len(HandlerCalls(trace)) = 0
    /\ Len(trace) = 2
    /\ interp.cached_dispatches = last.interp.cached_dispatches + 2
    /\ interp.uncached_dispatches = last.interp.uncached_dispatches

\* an uncached dispatch of an opcode without a rule: no call, one dispatch counted
C35_WitnessNoMatch ==
    /\ Ran
    /\ exit_status = "running"
    /\ last.interp.mode = "MODE_UNCACHED"
    /\ Len(last.program) = 1
    /\ last.interp.rule_cache[last.program[1].op] = NULL_ADDR
    /\ trace = << >>
    /\ interp.uncached_dispatches = last.interp.uncached_dispatches + 1
    /\ interp.cached_dispatches = last.interp.cached_dispatches


(***************************************************************************)
(* The frame of tiered_unregister_opcode                                   *)
(***************************************************************************)
\* all_rules[0 .. all_rules_count): the rules an uncached dispatch scans, in order
FlatArray(it) == SubSeq(it.all_rules, 1, it.all_rules_count)

\* C36: unregister_opcode of an opcode without a rule leaves rule_cache, the flat array
\* and the rules unchanged, and in cached mode still switches to uncached and adds one
\* to cache_invalidations (in uncached mode it changes nothing); unregister_opcode of a
\* registered opcode empties that opcode's cache slot, destroys that rule only, and
\* leaves the other rules in the flat array in the order they had.
C36_UnregisterFrame ==
    [][last'.op = "tiered_unregister_opcode" =>
         LET opcode == last'.opcode
             old_rule == interp.rule_cache[opcode]
         IN  /\ old_rule = NULL_ADDR =>
                   /\ interp'.rule_cache = interp.rule_cache
                   /\ interp'.all_rules = interp.all_rules
                   /\ interp'.all_rules_count = interp.all_rules_count
                   /\ heap' = heap
                   /\ interp.mode = "MODE_CACHED" =>
                         /\ interp'.mode = "MODE_UNCACHED"
                         /\ interp'.cache_invalidations = interp.cache_invalidations + 1
                   /\ interp.mode = "MODE_UNCACHED" => interp' = interp
             /\ old_rule # NULL_ADDR =>
                   /\ interp'.rule_cache = [interp.rule_cache EXCEPT ![opcode] = NULL_ADDR]
                   /\ FlatArray(interp')
                         = SelectSeq(FlatArray(interp), LAMBDA a : a # old_rule)
                   /\ Len(FlatArray(interp')) = Len(FlatArray(interp)) - 1
                   /\ heap' = [heap EXCEPT ![old_rule] = NULL]]_vars

\* one of three registered opcodes, not the last in the flat array, was unregistered:
\* the rules behind it moved down one slot and the last slot kept its stale pointer
C36_Witness ==
    /\ last.op = "tiered_unregister_opcode"
    /\ last.registered
    /\ interp.all_rules_count = 2
    /\ Len(interp.all_rules) = 3
    /\ interp.all_rules[1] < interp.all_rules[2]
    /\ interp.all_rules[2] = interp.all_rules[3]
    /\ Cardinality(FreeAddrs(heap)) = MaxAddr - 2

\* an opcode without a rule was unregistered in cached mode, one rule being registered
C36_WitnessNoRule ==
    /\ last.op = "tiered_unregister_opcode"
    /\ ~last.registered
    /\ last.mode = "MODE_CACHED"
    /\ interp.mode = "MODE_UNCACHED"
    /\ interp.cache_invalidations = last.cache_invalidations + 1
    /\ interp.all_rules_count = 1


(***************************************************************************)
(* Replacing the rule of an opcode that carries hooks                      *)
(***************************************************************************)
HookChains == {"before", "middleware", "after"}

HOOKED_PRIORITY == 5

\* the host adds a hook to the rule installed for the opcode
AttachHook(opcode, chainname, node) ==
    /\ exit_status = "running"
    /\ interp.cached_dispatches + interp.uncached_dispatches = 0
    /\ interp.rule_cache[opcode] # NULL_ADDR
    /\ Len(added.before) + Len(added.middleware) + Len(added.after) < MaxDispatchHooks
    /\ heap' = [heap EXCEPT ![interp.rule_cache[opcode]] =
                   CASE chainname = "before" -> sfpm_rule_add_before_hook(@, node)
                     [] chainname = "middleware" -> sfpm_rule_add_middleware_hook(@, node)
                     [] chainname = "after" -> sfpm_rule_add_after_hook(@, node)]
    /\ added' = [added EXCEPT ![chainname] = Append(@, [opcode |-> opcode, node |-> node])]
    /\ trace' = << >>
    /\ last' = NoCall
    /\ UNCHANGED <<rules, facts, selected, rule, interp, vm, exit_status, handlers, snapshot_vars>>

\* the host raises the priority of the rule installed for the opcode
SetRulePriority(opcode) ==
    /\ exit_status = "running"
    /\ interp.cached_dispatches + interp.uncached_dispatches = 0
    /\ interp.rule_cache[opcode] # NULL_ADDR
    /\ heap[interp.rule_cache[opcode]].priority # HOOKED_PRIORITY
    /\ heap' = [heap EXCEPT ![interp.rule_cache[opcode]] =
                   sfpm_rule_set_priority(@, HOOKED_PRIORITY)]
    /\ trace' = << >>
    /\ last' = NoCall
    /\ UNCHANGED <<rules, facts, selected, rule, added, interp, vm, exit_status, handlers, snapshot_vars>>

\* register_opcode / update_opcode before the first dispatch, on opcodes with or
\* without a rule
Install(opcode, handler) ==
    /\ FreeAddrs(heap) # {}
    /\ interp.cached_dispatches + interp.uncached_dispatches = 0
    /\ \/ Register(opcode, handler, first_free(heap))
       \/ Update(opcode, handler, first_free(heap))

NextReplace ==
    \/ \E opcode \in ModeOpcodes : \E handler \in Handlers(opcode) :
          Install(opcode, handler)
    \/ \E opcode \in ModeOpcodes : \E chainname \in HookChains :
          \E node \in DispatchHookNodes : AttachHook(opcode, chainname, node)
    \/ \E opcode \in ModeOpcodes : SetRulePriority(opcode)
    \/ EnterCachedMode
    \/ \E program \in {q \in Programs : Len(q) = 1 /\ q[1].op \in ModeOpcodes} :
          RunProgram(program)

SpecReplace == InitTiered /\ [][NextReplace]_vars

\* the rule is as create_opcode_rule leaves it: no hook in any chain, priority 0
Unhooked(r) ==
    /\ r.before_hook_chain = << >>
    /\ r.middleware_hook_chain = << >>
    /\ r.after_hook_chain = << >>
    /\ r.priority = 0

HookCalls(calls) == SelectSeq(calls, LAMBDA c : c.kind \in HookChains)

\* C37: the rule a register_opcode or update_opcode call installs has empty before,
\* middleware and after chains and priority 0 whatever the opcode's previous rule
\* carried, and the previous rule is destroyed; a dispatch calls the hooks of the
\* rule installed at the time and no others, so a hook of a replaced rule never runs.
C37_ReplacedRuleLosesHooks ==
    /\ [][last'.op \in {"tiered_register_opcode", "tiered_update_opcode"} =>
             /\ Unhooked(heap'[interp'.rule_cache[last'.opcode]])
             /\ interp.rule_cache[last'.opcode] # NULL_ADDR =>
                   heap'[interp.rule_cache[last'.opcode]] = NULL]_vars
    /\ [](Ran =>
             LET opcode == last.program[1].op
                 installed == interp.rule_cache[opcode]
             IN  /\ installed = NULL_ADDR => HookCalls(trace) = << >>
                 /\ installed # NULL_ADDR =>
                       HookCalls(trace)
                          = HookCalls(sfpm_rule_execute_payload(heap[installed])))

\* a before hook that returns false was attached to the PUSH rule, PUSH was registered
\* again, and PUSH 1 then ran: no hook was called and the handler pushed 1
C37_Witness ==
    /\ Ran
    /\ exit_status = "running"
    /\ added.before = <<[opcode |-> OP_PUSH, node |-> hook_that_aborts]>>
    /\ added.middleware = << >>
    /\ added.after = << >>
    /\ last.program = <<instruction(OP_PUSH, 1)>>
    /\ HookCalls(trace) = << >>
    /\ HandlerCalls(trace) = <<handler_call("op_push", 1)>>
    /\ vm.stack = <<1>>


(***************************************************************************)
(* The run loops, one iteration at a time                                  *)
(***************************************************************************)
\* an iteration of tiered_run_program whose fetch leaves pc where it is
run_iteration_no_advance(st, v, program) ==
    tiered_execute_instruction(st, v, program[v.pc + 1])

\* instr = program[vm->pc++]; tiered_execute_instruction(interp, vm, instr)
run_iteration(st, v, program) ==
    tiered_execute_instruction(st, [v EXCEPT !.pc = @ + 1], program[v.pc + 1])

Tiered == interp # NULL

\* tiered_run_program has been called and its loop condition holds
InLoop ==
    /\ last.op = "tiered_run_program"
    /\ exit_status = "running"
    /\ vm.pc < Len(last.program) /\ ~vm.halted

\* vm_init(&vm) and the call of tiered_run_program: the loop is entered
StartRun(program) ==
    /\ Tiered /\ ~InLoop
    /\ exit_status = "running"
    /\ interp.cached_dispatches + interp.uncached_dispatches + Len(program)
          <= MaxDispatches
    /\ vm' = vm_init
    /\ trace' = << >>
    /\ last' = [op |-> "tiered_run_program", program |-> program, interp |-> interp]
    /\ UNCHANGED <<rules, facts, selected, rule, added, interp, heap, exit_status,
                   handlers, snapshot_vars>>

\* one iteration of the while loop of tiered_run_program
RunStep ==
    /\ Tiered /\ InLoop
    /\ interp.cached_dispatches + interp.uncached_dispatches < MaxDispatches
    /\ \E r \in run_iteration([interp |-> interp, heap |-> heap], vm, last.program) :
          /\ interp' = r.interp
          /\ vm' = r.vm
          /\ trace' = trace \o r.calls
          /\ exit_status' = r.exit
    /\ UNCHANGED <<rules, facts, selected, rule, added, heap, handlers, last, snapshot_vars>>

\* between runs the host registers and unregisters opcodes, attaches hooks and
\* switches the mode
HostStep ==
    /\ Tiered /\ ~InLoop
    /\ interp.cached_dispatches + interp.uncached_dispatches = 0
    /\ \/ \E opcode \in ModeOpcodes : \E handler \in Handlers(opcode) :
             RegisterFirstFree(opcode, handler)
       \/ Unregister(OP_HALT)
       \/ AttachBeforeHook(OP_HALT, hook_that_aborts)
       \/ EnterCachedMode
       \/ EnterUncachedMode

InitLoops == InitTiered \/ InitChain

NextLoops ==
    \/ HostStep
    \/ \E program \in Programs : StartRun(program)
    \/ RunStep
    \/ ~Tiered /\ InterpreterStep

\* the thread that called tiered_run_program or interpreter_run keeps executing it
SpecLoops ==
    /\ InitLoops /\ [][NextLoops]_vars
    /\ WF_vars(RunStep)
    /\ WF_vars(~Tiered /\ InterpreterStep)

\* the loop condition of the run loop in progress, if any
LoopCondition ==
    IF Tiered THEN InLoop ELSE vm.pc < vm.program_size /\ ~vm.halted

\* the iterations of the run so far do not exceed pc, and pc not the program size
WithinProgram ==
    IF Tiered
    THEN last.op = "tiered_run_program" =>
            /\ (interp.cached_dispatches + interp.uncached_dispatches)
                 - (last.interp.cached_dispatches + last.interp.uncached_dispatches)
                    <= vm.pc
            /\ vm.pc <= Len(last.program)
    ELSE /\ heap.abort_counter <= vm.pc
         /\ vm.pc <= vm.program_size

\* C38: every run of tiered_run_program and of interpreter_run ends: each iteration
\* moves pc up by at least one whether or not a payload ran, the dispatches of a run
\* never exceed pc nor pc the program size, and a loop whose condition holds reaches
\* a state where pc is the program size, the vm is halted or the process has ended.
C38_RunTerminates ==
    /\ []WithinProgram
    /\ [][/\ (Tiered /\ InLoop /\ last' = last /\ vm' # vm) => vm'.pc = vm.pc + 1
          /\ (~Tiered /\ vm' # vm) => vm'.pc \in {vm.pc + 1, vm.pc + 2}]_vars
    /\ LoopCondition ~> ~LoopCondition

\* in uncached mode HALT, PUSH 1, PUSH 2 ran to the end of the program with HALT
\* unregistered: no handler ran for HALT and the loop ended with pc = program_size
C38_Witness ==
    /\ Tiered
    /\ last.op = "tiered_run_program"
    /\ last.interp.mode = "MODE_UNCACHED"
    /\ last.interp.rule_cache[OP_HALT] = NULL_ADDR
    /\ last.interp.cache_invalidations = 1
    /\ last.program = <<instruction(OP_HALT, 0), instruction(OP_PUSH, 1),
                        instruction(OP_PUSH, 2)>>
    /\ vm.pc = 3 /\ ~vm.halted
    /\ vm.stack = <<1, 2>>

\* a before hook that returns false suppressed the HALT payload: the run went past HALT
C38_WitnessSuppressed ==
    /\ Tiered
    /\ last.op = "tiered_run_program"
    /\ last.interp.rule_cache[OP_HALT] # NULL_ADDR
    /\ last.program = <<instruction(OP_HALT, 0), instruction(OP_PUSH, 1)>>
    /\ vm.pc = 2 /\ ~vm.halted
    /\ vm.stack = <<1>>

\* interpreter_run reached the end of the demo program, its HALT suppressed
C38_WitnessInterpreterRun ==
    /\ ~Tiered
    /\ vm.program = early_abortion_program
    /\ vm.pc = vm.program_size
    /\ ~vm.halted


(***************************************************************************)
(* The mutators of a rule                                                  *)
(***************************************************************************)
\* what sfpm_rule_add_*_hook returns: false for a null rule and for a null hook function
add_hook_returns(r, node) == r # NULL /\ node.hook # NULL_FN

null_hook == hook_node(NULL_FN, TRUE)

Priorities == {0, 1, 10}

InitMutators ==
    /\ rule \in {sfpm_rule_create(
                     <<sfpm_criteria_create("a", "SFPM_OP_EQUAL", sfpm_value_from_int(1))>>,
                     "test_payload", NULL_FN, "test"),
                 NULL}
    /\ rules = << >>
    /\ facts = NULL
    /\ selected = NULL
    /\ added = NoneAdded
    /\ trace = << >>
    /\ last = NoCall
    /\ interp = NULL
    /\ heap = NULL
    /\ vm = NULL
    /\ exit_status = "running"
    /\ handlers = NULL
    /\ snapshot = NULL
    /\ memory = NULL
    /\ file = NULL
    /\ saved = NULL

\* sfpm_rule_add_before_hook / _middleware_hook / _after_hook (rule, hook, user_data)
AddHook(chainname, node) ==
    /\ rule # NULL => hook_total(rule) < MaxHooks
    /\ rule' = CASE chainname = "before" -> sfpm_rule_add_before_hook(rule, node)
                 [] chainname = "middleware" -> sfpm_rule_add_middleware_hook(rule, node)
                 [] chainname = "after" -> sfpm_rule_add_after_hook(rule, node)
    /\ last' = [op |-> "sfpm_rule_add_hook", chain |-> chainname, node |-> node,
                ret |-> add_hook_returns(rule, node)]
    /\ trace' = << >>
    /\ UNCHANGED <<added, rules, facts, selected, tiered_vars, snapshot_vars>>

SetPriority(priority) ==
    /\ rule' = sfpm_rule_set_priority(rule, priority)
    /\ last' = [op |-> "sfpm_rule_set_priority", priority |-> priority]
    /\ trace' = << >>
    /\ UNCHANGED <<added, rules, facts, selected, tiered_vars, snapshot_vars>>

NextMutators ==
    \/ \E chainname \in HookChains : \E node \in HookNodes \cup {null_hook} :
          AddHook(chainname, node)
    \/ \E priority \in Priorities : SetPriority(priority)
    \/ ClearHooks

SpecMutators == InitMutators /\ [][NextMutators]_vars

\* the rule r with node appended to the chain of that name and nothing else changed
WithNodeAppended(r, chainname, node) ==
    CASE chainname = "before" -> [r EXCEPT !.before_hook_chain = Append(@, node)]
      [] chainname = "middleware" -> [r EXCEPT !.middleware_hook_chain = Append(@, node)]
      [] chainname = "after" -> [r EXCEPT !.after_hook_chain = Append(@, node)]

\* C39: no call changes the criteria, the payload or the name of a rule;
\* sfpm_rule_set_priority changes the priority and nothing else; an add_*_hook call
\* that returns true appends its node at the end of its own chain and changes nothing
\* else, one that returns false changes nothing, and the call returns false whenever
\* the rule or the hook function is null.
C39_MutatorFrame ==
    [][/\ rule = NULL => rule' = NULL
       /\ rule # NULL =>
             /\ rule' # NULL
             /\ rule'.criterias = rule.criterias
             /\ rule'.payload = rule.payload
             /\ rule'.payload_user_data = rule.payload_user_data
             /\ rule'.name = rule.name
       /\ (last'.op = "sfpm_rule_set_priority" /\ rule # NULL) =>
             rule' = [rule EXCEPT !.priority = last'.priority]
       /\ last'.op = "sfpm_rule_add_hook" =>
             /\ (rule = NULL \/ last'.node.hook = NULL_FN) => ~last'.ret
             /\ last'.ret => rule' = WithNodeAppended(rule, last'.chain, last'.node)
             /\ ~last'.ret => rule' = rule]_vars

\* a middleware hook was added to a rule of priority 10 that held one before hook
C39_Witness ==
    /\ last.op = "sfpm_rule_add_hook"
    /\ last.ret
    /\ last.chain = "middleware"
    /\ rule.priority = 10
    /\ rule.before_hook_chain = <<before_hook_1>>
    /\ rule.middleware_hook_chain = <<last.node>>
    /\ rule.after_hook_chain = << >>

\* a null hook function was offered to a rule that held a before hook: false, no change
C39_WitnessNullHook ==
    /\ last.op = "sfpm_rule_add_hook"
    /\ ~last.ret
    /\ last.node = null_hook
    /\ last.chain = "before"
    /\ rule # NULL
    /\ rule.before_hook_chain = <<before_hook_2>>

\* a hook was offered to a null rule
C39_WitnessNullRule ==
    /\ last.op = "sfpm_rule_add_hook"
    /\ ~last.ret
    /\ last.node = before_hook_1
    /\ rule = NULL

====
